---- MODULE Spec2Model ----
(***************************************************************************)
(* A model of the location-extraction pipeline of the travel chat          *)
(* application: the two JSON entry points of services/locationParser.ts    *)
(* (parseJsonLocations, strict; extractLocationsFromResponse, permissive)  *)
(* and the App component that runs the permissive one on every streamed    *)
(* content.                                                                *)
(*                                                                         *)
(* Text is a sequence of lexical tokens: a structural character, a string  *)
(* literal, a number literal, a keyword literal, one whitespace character  *)
(* or one word of prose.  The regular expressions of the source are        *)
(* matched on that sequence and JSON.parse is a recursive-descent parser   *)
(* over it, so what a regular expression cuts out of a text is what the    *)
(* parser gets.  String literals are atomic: no string of the model        *)
(* contains a quote, a bracket or a brace.  Numbers are integers:          *)
(* coordinates are whole degrees, ratings are tenths of a star.            *)
(***************************************************************************)
EXTENDS Integers, Sequences, FiniteSets, TLC

(***************************************************************************)
(* Bounds of the model.                                                    *)
(***************************************************************************)
MaxRecs == 2
MaxCut == 2

(***************************************************************************)
(* Tokens.                                                                 *)
(***************************************************************************)
P(c) == [t |-> "p", s |-> c, n |-> 0]
S(x) == [t |-> "s", s |-> x, n |-> 0]
N(i) == [t |-> "n", s |-> "", n |-> i]
K(w) == [t |-> "k", s |-> w, n |-> 0]
W(c) == [t |-> "w", s |-> c, n |-> 0]
X(w) == [t |-> "x", s |-> w, n |-> 0]

IsP(k, c) == k.t = "p" /\ k.s = c

(***************************************************************************)
(* JavaScript values.                                                      *)
(***************************************************************************)
VNum(i) == [t |-> "num", n |-> i, s |-> "", a |-> <<>>, o |-> <<>>]
VStr(x) == [t |-> "str", n |-> 0, s |-> x, a |-> <<>>, o |-> <<>>]
VArr(e) == [t |-> "arr", n |-> 0, s |-> "", a |-> e, o |-> <<>>]
VObj(m) == [t |-> "obj", n |-> 0, s |-> "", a |-> <<>>, o |-> m]
VNull == [t |-> "null", n |-> 0, s |-> "", a |-> <<>>, o |-> <<>>]
VUndef == [t |-> "undef", n |-> 0, s |-> "", a |-> <<>>, o |-> <<>>]
VNaN == [t |-> "nan", n |-> 0, s |-> "", a |-> <<>>, o |-> <<>>]
VBool(b) == [t |-> "bool", n |-> IF b THEN 1 ELSE 0, s |-> "", a |-> <<>>, o |-> <<>>]
M(k, v) == [k |-> k, v |-> v]

\* obj.key: the last member of that name wins, as JSON.parse keeps it.
RECURSIVE Lookup(_, _, _)
Lookup(m, key, i) ==
    IF i = 0 THEN VUndef
    ELSE IF m[i].k = key THEN m[i].v
    ELSE Lookup(m, key, i - 1)

\* v.key for a v that is neither null nor undefined.
Get(v, key) == IF v.t = "obj" THEN Lookup(v.o, key, Len(v.o)) ELSE VUndef

\* v[i] (i counted from 0) for an array or a value without indexed members.
Index(v, i) ==
    CASE v.t = "arr" -> IF i + 1 <= Len(v.a) THEN v.a[i + 1] ELSE VUndef
      [] v.t \in {"num", "bool", "nan"} -> VUndef
      [] v.t = "obj" -> VUndef

Nullish(v) == v.t \in {"null", "undef"}

\* ToBoolean
Truthy(v) ==
    CASE v.t = "num" -> v.n # 0
      [] v.t = "str" -> v.s # ""
      [] v.t = "bool" -> v.n = 1
      [] v.t \in {"null", "undef", "nan"} -> FALSE
      [] v.t \in {"arr", "obj", "img"} -> TRUE

\* a || b
Or(a, b) == IF Truthy(a) THEN a ELSE b

\* Number(v); no string of the model other than "" reads as a number.
ToNumber(v) ==
    CASE v.t = "num" -> v
      [] v.t = "undef" -> VNaN
      [] v.t = "null" -> VNum(0)
      [] v.t = "bool" -> VNum(v.n)
      [] v.t = "nan" -> VNaN
      [] v.t = "str" -> IF v.s = "" THEN VNum(0) ELSE VNaN
      [] v.t = "obj" -> VNaN

\* String.prototype.trim on the strings of the model.
Trim(x) ==
    CASE x = " Oslo " -> "Oslo"
      [] x = " Fjord " -> "Fjord"
      [] x = " " -> ""
      [] OTHER -> x

(***************************************************************************)
(* JSON.stringify.                                                         *)
(***************************************************************************)
RECURSIVE Stringify(_), JoinElems(_), JoinMembers(_)
Stringify(v) ==
    CASE v.t = "num" -> <<N(v.n)>>
      [] v.t = "str" -> <<S(v.s)>>
      [] v.t = "null" -> <<K("null")>>
      [] v.t = "bool" -> <<K(IF v.n = 1 THEN "true" ELSE "false")>>
      [] v.t = "arr" -> <<P("[")>> \o JoinElems(v.a) \o <<P("]")>>
      [] v.t = "obj" -> <<P("{")>> \o JoinMembers(v.o) \o <<P("}")>>

JoinElems(e) ==
    IF Len(e) = 0 THEN <<>>
    ELSE IF Len(e) = 1 THEN Stringify(e[1])
    ELSE Stringify(e[1]) \o <<P(",")>> \o JoinElems(Tail(e))

JoinMembers(m) ==
    IF Len(m) = 0 THEN <<>>
    ELSE IF Len(m) = 1 THEN <<S(m[1].k), P(":")>> \o Stringify(m[1].v)
    ELSE <<S(m[1].k), P(":")>> \o Stringify(m[1].v) \o <<P(",")>> \o JoinMembers(Tail(m))

(***************************************************************************)
(* JSON.parse: whitespace between tokens is insignificant; anything that   *)
(* is not one complete value is a SyntaxError (ok = FALSE).                *)
(***************************************************************************)
NoParse == [ok |-> FALSE, v |-> VUndef, i |-> 0]

RECURSIVE ParseValue(_, _), ParseElems(_, _, _), ParseMembers(_, _, _)
ParseValue(ts, i) ==
    IF i > Len(ts) THEN NoParse
    ELSE LET k == ts[i] IN
         CASE k.t = "n" -> [ok |-> TRUE, v |-> VNum(k.n), i |-> i + 1]
           [] k.t = "s" -> [ok |-> TRUE, v |-> VStr(k.s), i |-> i + 1]
           [] k.t = "k" ->
                [ok |-> TRUE,
                 v |-> IF k.s = "null" THEN VNull ELSE VBool(k.s = "true"),
                 i |-> i + 1]
           [] IsP(k, "[") ->
                IF i + 1 <= Len(ts) /\ IsP(ts[i + 1], "]")
                THEN [ok |-> TRUE, v |-> VArr(<<>>), i |-> i + 2]
                ELSE ParseElems(ts, i + 1, <<>>)
           [] IsP(k, "{") ->
                IF i + 1 <= Len(ts) /\ IsP(ts[i + 1], "}")
                THEN [ok |-> TRUE, v |-> VObj(<<>>), i |-> i + 2]
                ELSE ParseMembers(ts, i + 1, <<>>)
           [] OTHER -> NoParse

ParseElems(ts, i, acc) ==
    LET r == ParseValue(ts, i) IN
    IF ~r.ok \/ r.i > Len(ts) THEN NoParse
    ELSE IF IsP(ts[r.i], ",") THEN ParseElems(ts, r.i + 1, Append(acc, r.v))
    ELSE IF IsP(ts[r.i], "]")
         THEN [ok |-> TRUE, v |-> VArr(Append(acc, r.v)), i |-> r.i + 1]
    ELSE NoParse

ParseMembers(ts, i, acc) ==
    IF i + 1 > Len(ts) \/ ts[i].t # "s" \/ ~IsP(ts[i + 1], ":") THEN NoParse
    ELSE LET r == ParseValue(ts, i + 2) IN
         IF ~r.ok \/ r.i > Len(ts) THEN NoParse
         ELSE IF IsP(ts[r.i], ",")
              THEN ParseMembers(ts, r.i + 1, Append(acc, M(ts[i].s, r.v)))
         ELSE IF IsP(ts[r.i], "}")
              THEN [ok |-> TRUE, v |-> VObj(Append(acc, M(ts[i].s, r.v))), i |-> r.i + 1]
         ELSE NoParse

JSONParse(text) ==
    LET ts == SelectSeq(text, LAMBDA k : k.t # "w")
        r == ParseValue(ts, 1)
    IN  IF r.ok /\ r.i = Len(ts) + 1 THEN [ok |-> TRUE, v |-> r.v]
        ELSE [ok |-> FALSE, v |-> VUndef]

(***************************************************************************)
(* The regular expressions of locationParser.ts, on tokens.                *)
(***************************************************************************)
RECURSIVE SkipWs(_, _)
SkipWs(t, i) == IF i <= Len(t) /\ t[i].t = "w" THEN SkipWs(t, i + 1) ELSE i

MinOf(Q) == CHOOSE q \in Q : \A r \in Q : q <= r

\* {\s*"locations":\s*\[  at i: the position after the opening bracket, or 0.
LocationsHeadAt(t, i) ==
    LET j == SkipWs(t, i + 1)
        k == SkipWs(t, j + 2)
    IN  IF /\ i <= Len(t) /\ IsP(t[i], "{")
           /\ j + 1 <= Len(t) /\ t[j] = S("locations") /\ IsP(t[j + 1], ":")
           /\ k <= Len(t) /\ IsP(t[k], "[")
        THEN k + 1 ELSE 0

\* [\s\S]*?\]\s*}  from p: the lazy quantifier stops at the first closing
\* bracket that is followed by optional whitespace and a closing brace.
\* The position of that brace, or 0.
LazyTailFrom(t, p) ==
    LET Q == {q \in p..Len(t) :
                 /\ IsP(t[q], "]")
                 /\ SkipWs(t, q + 1) <= Len(t)
                 /\ IsP(t[SkipWs(t, q + 1)], "}")}
    IN  IF Q = {} THEN 0 ELSE SkipWs(t, MinOf(Q) + 1)

NoMatch == [found |-> FALSE, from |-> 0, to |-> 0]

\* text.match(/{\s*"locations":\s*\[[\s\S]*?\]\s*}/): the leftmost match.
MatchLocationsBlock(t) ==
    LET I == {i \in 1..Len(t) :
                 /\ LocationsHeadAt(t, i) # 0
                 /\ LazyTailFrom(t, LocationsHeadAt(t, i)) # 0}
    IN  IF I = {} THEN NoMatch
        ELSE [found |-> TRUE, from |-> MinOf(I),
              to |-> LazyTailFrom(t, LocationsHeadAt(t, MinOf(I)))]

\* A token that is one character of text.
OneChar(k) == k.t \in {"p", "w"} \/ (k.t = "n" /\ k.n \in 0..9)

RECURSIVE RunEnd(_, _)
\* the last of the closing brackets that follow one another from i
RunEnd(t, i) == IF i + 1 <= Len(t) /\ IsP(t[i + 1], "]") THEN RunEnd(t, i + 1) ELSE i

\* {\s*"name":\s*"[^"]+",\s*"coordinates":\s*\[[^]]+\]  at i.  In a JavaScript
\* regular expression [^] is a class of its own (any character), so [^]]+\]
\* reads: one character, one or more closing brackets, a closing bracket.
\* The position of the last closing bracket of the run, or 0.
SingleHeadAt(t, i) ==
    LET j == SkipWs(t, i + 1)
        k == SkipWs(t, j + 2)
        c == SkipWs(t, k + 2)
        b == SkipWs(t, c + 2)
    IN  IF /\ i <= Len(t) /\ IsP(t[i], "{")
           /\ j + 1 <= Len(t) /\ t[j] = S("name") /\ IsP(t[j + 1], ":")
           /\ k + 1 <= Len(t) /\ t[k].t = "s" /\ t[k].s # "" /\ IsP(t[k + 1], ",")
           /\ c + 1 <= Len(t) /\ t[c] = S("coordinates") /\ IsP(t[c + 1], ":")
           /\ b + 3 <= Len(t) /\ IsP(t[b], "[") /\ OneChar(t[b + 1])
           /\ IsP(t[b + 2], "]") /\ IsP(t[b + 3], "]")
        THEN RunEnd(t, b + 3) ELSE 0

\* .*?}  from p: the first closing brace, no line break before it.
DotTailFrom(t, p) ==
    LET Q == {q \in p..Len(t) :
                 /\ IsP(t[q], "}")
                 /\ \A r \in p..(q - 1) : t[r] # W("\n")}
    IN  IF Q = {} THEN 0 ELSE MinOf(Q)

\* text.match(/{\s*"name":\s*"[^"]+",\s*"coordinates":\s*\[[^]]+\].*?}/g)[0]
MatchSingleLocation(t) ==
    LET I == {i \in 1..Len(t) :
                 /\ SingleHeadAt(t, i) # 0
                 /\ DotTailFrom(t, SingleHeadAt(t, i) + 1) # 0}
    IN  IF I = {} THEN NoMatch
        ELSE [found |-> TRUE, from |-> MinOf(I),
              to |-> DotTailFrom(t, SingleHeadAt(t, MinOf(I)) + 1)]

(***************************************************************************)
(* Collaborators that are not part of the parser.                          *)
(***************************************************************************)
\* imageService.generateImageUrl: a non-empty URL derived from the name.
GenerateImageUrl(name) ==
    [t |-> "img", n |-> 0, s |-> IF name.t = "str" THEN name.s ELSE "", a |-> <<>>, o |-> <<>>]

\* the template string `Visit ${loc.name}`
VisitText(name) ==
    [t |-> "visit", n |-> 0, s |-> IF name.t = "str" THEN name.s ELSE "", a |-> <<>>, o |-> <<>>]

(***************************************************************************)
(* locationParser.ts                                                       *)
(***************************************************************************)
LatMin == -90
LatMax == 90
LngMin == -180
LngMax == 180
DefaultRating == 45
ReviewsBase == 10000
ReviewsSpan == 40000

\* Math.floor(Math.random() * 40000): the two ends of its range
RandomFloors == {0, ReviewsSpan - 1}

\* typeof v === 'number', and the comparisons of a number (false for NaN)
TypeofNumber(v) == v.t \in {"num", "nan"}
Ge(v, n) == v.t = "num" /\ v.n >= n
Le(v, n) == v.t = "num" /\ v.n <= n

IsValidCoordinates(coords) ==
    /\ coords.t = "arr"
    /\ Len(coords.a) = 2
    /\ TypeofNumber(coords.a[1])
    /\ TypeofNumber(coords.a[2])
    /\ Ge(coords.a[1], LatMin) /\ Le(coords.a[1], LatMax)
    /\ Ge(coords.a[2], LngMin) /\ Le(coords.a[2], LngMax)

Returned(list) == [th |-> "none", name |-> VUndef, val |-> list]
Thrown(kind, name) == [th |-> kind, name |-> name, val |-> <<>>]

\* One pattern of parseJsonLocations: its first match, parsed; the records
\* it yields (lines 36-47).
PatternPayload(m, text) ==
    IF ~m.found THEN [hit |-> FALSE, locs |-> <<>>]
    ELSE LET parsed == JSONParse(SubSeq(text, m.from, m.to)) IN
         IF ~parsed.ok THEN [hit |-> FALSE, locs |-> <<>>]
         ELSE [hit |-> TRUE,
               locs |-> IF Get(parsed.v, "locations").t = "arr"
                        THEN Get(parsed.v, "locations").a
                        ELSE <<parsed.v>>]

\* a slip: an empty result of the first pattern does not end the loop
RawLocationsSkippingEmpty(text) ==
    LET p1 == PatternPayload(MatchLocationsBlock(text), text)
        p2 == PatternPayload(MatchSingleLocation(text), text)
    IN  IF p1.hit /\ Len(p1.locs) > 0 THEN p1.locs
        ELSE IF p2.hit THEN p2.locs
        ELSE <<>>

\* a slip: the payload's records taken last to first
RawLocationsReversed(text) ==
    LET p1 == PatternPayload(MatchLocationsBlock(text), text)
        p2 == PatternPayload(MatchSingleLocation(text), text)
        back(q) == [i \in 1..Len(q) |-> q[Len(q) + 1 - i]]
    IN  IF p1.hit THEN back(p1.locs)
        ELSE IF p2.hit THEN back(p2.locs)
        ELSE <<>>

\* The loop over the patterns: the first pattern whose match parses decides.
RawLocations(text) ==
    LET p1 == PatternPayload(MatchLocationsBlock(text), text)
        p2 == PatternPayload(MatchSingleLocation(text), text)
    IN  IF p1.hit THEN p1.locs
        ELSE IF p2.hit THEN p2.locs
        ELSE <<>>

\* a slip: the id built from the clock alone
StrictIdWithoutIndex(now, index) == [fmt |-> "now-loc-index", now |-> now, index |-> 0]

StrictId(now, index) == [fmt |-> "now-loc-index", now |-> now, index |-> index]
PermissiveId(now, index) == [fmt |-> "loc-now-index", now |-> now, index |-> index]

NoStrictLocation ==
    [id |-> StrictId(0, 0), name |-> VUndef, coordinates |-> VUndef, rating |-> VUndef,
     reviews |-> VUndef, description |-> VUndef, image |-> VUndef]

\* The callback of locations.map in parseJsonLocations (lines 54-69).
StrictLocation(loc, index, now) ==
    IF Nullish(loc) THEN [th |-> "TypeError", name |-> VUndef, loc |-> NoStrictLocation]
    ELSE IF ~IsValidCoordinates(Get(loc, "coordinates"))
    THEN [th |-> "InvalidCoordinates", name |-> Get(loc, "name"), loc |-> NoStrictLocation]
    ELSE IF Get(loc, "name").t # "str"
    THEN [th |-> "TypeError", name |-> VUndef, loc |-> NoStrictLocation]
    ELSE IF ~Nullish(Get(loc, "description")) /\ Get(loc, "description").t # "str"
    THEN [th |-> "TypeError", name |-> VUndef, loc |-> NoStrictLocation]
    ELSE [th |-> "none", name |-> VUndef,
          loc |-> [id |-> StrictId(now, index),
                   name |-> VStr(Trim(Get(loc, "name").s)),
                   coordinates |-> Get(loc, "coordinates"),
                   rating |-> Or(ToNumber(Get(loc, "rating")), VNum(0)),
                   reviews |-> Or(ToNumber(Get(loc, "reviews")), VNum(0)),
                   description |->
                       IF Nullish(Get(loc, "description")) THEN VStr("")
                       ELSE Or(VStr(Trim(Get(loc, "description").s)), VStr("")),
                   image |-> Or(Get(loc, "image"), GenerateImageUrl(Get(loc, "name")))]]

\* parseJsonLocations(text) at clock value now: what it returns or throws.
ParseJsonLocations(text, now) ==
    LET locations == RawLocations(text)
        out == [i \in 1..Len(locations) |-> StrictLocation(locations[i], i - 1, now[i])]
        bad == {i \in 1..Len(locations) : out[i].th # "none"}
    IN  IF Len(locations) = 0 THEN Thrown("NoLocations", VUndef)
        ELSE IF bad # {} THEN Thrown(out[MinOf(bad)].th, out[MinOf(bad)].name)
        ELSE Returned([i \in 1..Len(locations) |-> out[i].loc])

\* a slip: latitude and longitude taken in the wrong order
PositionSwapped(coords) == [lat |-> Index(coords, 1), lng |-> Index(coords, 0)]

\* position: { lat: loc.coordinates[0], lng: loc.coordinates[1] }
Position(coords) == [lat |-> Index(coords, 0), lng |-> Index(coords, 1)]

NoLocation ==
    [id |-> PermissiveId(0, 0), name |-> VUndef, position |-> [lat |-> VUndef, lng |-> VUndef],
     rating |-> VUndef, reviews |-> VUndef, imageUrl |-> VUndef, description |-> VUndef]

\* The callback of data.locations.map in extractLocationsFromResponse
\* (lines 195-206); rnd is the value of Math.floor(Math.random() * 40000).
PermissiveLocation(loc, index, now, rnd) ==
    IF Nullish(loc) \/ Nullish(Get(loc, "coordinates"))
    THEN [th |-> "TypeError", loc |-> NoLocation]
    ELSE [th |-> "none",
          loc |-> [id |-> PermissiveId(now, index),
                   name |-> Get(loc, "name"),
                   position |-> Position(Get(loc, "coordinates")),
                   rating |-> Or(Get(loc, "rating"), VNum(DefaultRating)),
                   reviews |-> Or(Get(loc, "reviews"), VNum(rnd + ReviewsBase)),
                   imageUrl |-> Or(Get(loc, "image"), GenerateImageUrl(Get(loc, "name"))),
                   description |-> Or(Get(loc, "description"), VisitText(Get(loc, "name")))]]

\* The try block of extractLocationsFromResponse (lines 178-206).
ExtractTry(text, now, rnd) ==
    LET m == MatchLocationsBlock(text) IN
    IF ~m.found THEN Returned(<<>>)
    ELSE LET data == JSONParse(SubSeq(text, m.from, m.to)) IN
         IF ~data.ok THEN Thrown("SyntaxError", VUndef)
         ELSE IF Get(data.v, "locations").t # "arr" THEN Returned(<<>>)
         ELSE LET locations == Get(data.v, "locations").a
                  out == [i \in 1..Len(locations) |->
                             PermissiveLocation(locations[i], i - 1, now[i], rnd[i])]
              IN  IF \E i \in 1..Len(locations) : out[i].th # "none"
                  THEN Thrown("TypeError", VUndef)
                  ELSE Returned([i \in 1..Len(locations) |-> out[i].loc])

\* a slip: the body without its try/catch
ExtractWithoutCatch(text, now, rnd) == ExtractTry(text, now, rnd)

\* extractLocationsFromResponse(text): the catch block returns [] (207-210).
ExtractLocationsFromResponse(text, now, rnd) ==
    LET r == ExtractTry(text, now, rnd) IN
    IF r.th # "none" THEN Returned(<<>>) ELSE r

(***************************************************************************)
(* parseTextLocations: LOCATION_PATTERN (line 141) on tokens: digits, a     *)
(* dot and blanks; a lazy name without dash or newline; then either a      *)
(* dash and a description up to a dot or newline, or the end of the text.  *)
(* A word or a string token stands for letters and blanks                  *)
(* only, so each character class takes or refuses a token as a whole.      *)
(***************************************************************************)
Digits(n) == IF n < 10 THEN 1 ELSE IF n < 100 THEN 2 ELSE 3

\* the number of characters a token stands for
TokLen(k) ==
    CASE k.t \in {"p", "w"} -> 1
      [] k.t = "s" -> Len(k.s) + 2
      [] k.t = "n" -> IF k.n < 0 THEN 1 + Digits(-k.n) ELSE Digits(k.n)
      [] OTHER -> Len(k.s)

\* name.length
RECURSIVE CharCount(_)
CharCount(toks) == IF toks = <<>> THEN 0 ELSE TokLen(Head(toks)) + CharCount(Tail(toks))

\* name.trim()
RECURSIVE TrimTokens(_)
TrimTokens(toks) ==
    IF toks = <<>> THEN <<>>
    ELSE IF Head(toks).t = "w" THEN TrimTokens(Tail(toks))
    ELSE IF toks[Len(toks)].t = "w" THEN TrimTokens(SubSeq(toks, 1, Len(toks) - 1))
    ELSE toks

\* [^-\n] and [^\n.]
InName(k) == ~IsP(k, "-") /\ ~(k.t = "w" /\ k.s = "\n") /\ ~(k.t = "n" /\ k.n < 0)
InDescription(k) == ~IsP(k, ".") /\ ~(k.t = "w" /\ k.s = "\n")

\* the end of the longest run of [^\n.] from g
RECURSIVE DescriptionEnd(_, _)
DescriptionEnd(t, g) ==
    IF g <= Len(t) /\ InDescription(t[g]) THEN DescriptionEnd(t, g + 1) ELSE g

MaxOf(Q) == CHOOSE q \in Q : \A r \in Q : q >= r

NoDescription == [found |-> FALSE, from |-> 0, to |-> 0, end |-> 0]

\* \s*-\s*([^\n.]+)[.\n] tried at e: both \s* are greedy, the second gives
\* blanks back to the description when the run after it is empty
DescriptionAt(t, e) ==
    LET a == SkipWs(t, e)
        G == IF a <= Len(t) /\ IsP(t[a], "-")
             THEN {g \in (a + 1)..SkipWs(t, a + 1) :
                      /\ DescriptionEnd(t, g) > g
                      /\ DescriptionEnd(t, g) <= Len(t)}
             ELSE {}
    IN  IF G = {} THEN NoDescription
        ELSE [found |-> TRUE, from |-> MaxOf(G), to |-> DescriptionEnd(t, MaxOf(G)) - 1,
              end |-> DescriptionEnd(t, MaxOf(G)) + 1]

\* ([^-\n]+?) from n0 can stop before e: the description follows, or the
\* text ends ($, no m flag)
NameEndsAt(t, n0, e) ==
    /\ \A j \in n0..(e - 1) : InName(t[j])
    /\ DescriptionAt(t, e).found \/ e = Len(t) + 1

NoItem == [found |-> FALSE, name |-> <<>>, hasDescription |-> FALSE, description |-> <<>>,
           end |-> 0]

\* the match that starts at i: \s* after the dot is greedy, the name lazy
ListItemAt(t, i) ==
    IF ~(i + 1 <= Len(t) /\ t[i].t = "n" /\ IsP(t[i + 1], ".")) THEN NoItem
    ELSE LET ends(n0) == {e \in (n0 + 1)..(Len(t) + 1) : NameEndsAt(t, n0, e)}
             starts == {n0 \in (i + 2)..SkipWs(t, i + 2) : ends(n0) # {}}
         IN  IF starts = {} THEN NoItem
             ELSE LET e == MinOf(ends(MaxOf(starts)))
                      d == DescriptionAt(t, e)
                  IN  [found |-> TRUE,
                       name |-> SubSeq(t, MaxOf(starts), e - 1),
                       hasDescription |-> d.found,
                       description |-> IF d.found THEN SubSeq(t, d.from, d.to) ELSE <<>>,
                       end |-> IF d.found THEN d.end ELSE Len(t) + 1]

\* the successive results of LOCATION_PATTERN.exec(text), from lastIndex
RECURSIVE ListItems(_, _)
ListItems(t, lastIndex) ==
    LET found == {i \in lastIndex..Len(t) : ListItemAt(t, i).found} IN
    IF found = {} THEN <<>>
    ELSE <<ListItemAt(t, MinOf(found))>> \o ListItems(t, ListItemAt(t, MinOf(found)).end)

\* the static table of known places behind getCoordinates and
\* getLocationDescription
KnownPlaces == {<<X("Louvre"), W(" "), X("Museum")>>, <<X("Rome")>>}
GetCoordinates(cleanName) ==
    CASE cleanName = <<X("Louvre"), W(" "), X("Museum")>> -> [lat |-> VNum(48), lng |-> VNum(2)]
      [] cleanName = <<X("Rome")>> -> [lat |-> VNum(41), lng |-> VNum(12)]
      [] OTHER -> [lat |-> VNum(0), lng |-> VNum(0)]
GetLocationDescription(cleanName) ==
    IF cleanName \in KnownPlaces THEN <<X("Known")>> ELSE <<>>

\* the object pushed for one accepted candidate (lines 156-164); count is
\* locations.length before the push
TextLocation(item, count, now, rnd) ==
    [id |-> PermissiveId(now, count),
     name |-> TrimTokens(item.name),
     position |-> GetCoordinates(TrimTokens(item.name)),
     rating |-> VNum(DefaultRating + (IF rnd = 0 THEN 0 ELSE 4)),
     reviews |-> VNum(rnd + ReviewsBase),
     imageUrl |-> [t |-> "img", name |-> TrimTokens(item.name)],
     description |-> IF item.hasDescription THEN item.description
                     ELSE GetLocationDescription(TrimTokens(item.name))]

\* The while loop inside the try block (lines 145-168): failing holds the
\* names a lookup throws for; the catch is outside the loop.
RECURSIVE ScanItems(_, _, _, _, _, _)
ScanItems(items, k, acc, failing, now, rnd) ==
    IF k > Len(items) THEN acc
    ELSE IF CharCount(items[k].name) < 2 THEN ScanItems(items, k + 1, acc, failing, now, rnd)
    ELSE IF TrimTokens(items[k].name) \in failing THEN acc
    ELSE ScanItems(items, k + 1,
                   Append(acc, TextLocation(items[k], Len(acc), now[Len(acc) + 1], rnd)),
                   failing, now, rnd)

\* parseTextLocations(text)
ParseTextLocations(text, failing, now, rnd) ==
    Returned(ScanItems(ListItems(text, 1), 1, <<>>, failing, now, rnd))

(***************************************************************************)
(* Input texts: the records a model reply can carry, and the texts built   *)
(* from them.                                                              *)
(***************************************************************************)
Coords(a, b) == VArr(<<VNum(a), VNum(b)>>)

\* the record of the spec's scenario: coordinates is its last key
RecEiffel == VObj(<<M("name", VStr("Eiffel Tower")), M("coordinates", Coords(48, 2))>>)
\* valid, on the edge of both ranges, name is its last key
RecPole == VObj(<<M("coordinates", Coords(90, -180)), M("name", VStr("Pole"))>>)
\* every optional field present
RecRome ==
    VObj(<<M("name", VStr("Rome")), M("coordinates", Coords(41, 12)), M("rating", VNum(40)),
           M("reviews", VNum(1200)), M("description", VStr("Old")), M("image", VStr("rome.jpg"))>>)
\* rating and reviews present with the value 0
RecZero ==
    VObj(<<M("name", VStr("Zero")), M("coordinates", Coords(0, 0)), M("rating", VNum(0)),
           M("reviews", VNum(0))>>)
\* surrounding whitespace in name and description
RecOslo ==
    VObj(<<M("coordinates", Coords(59, 10)), M("name", VStr(" Oslo ")),
           M("description", VStr(" Fjord "))>>)
\* the invalid record of the spec's scenario: latitude out of range
RecBad == VObj(<<M("name", VStr("Bad")), M("coordinates", Coords(200, 0))>>)
\* longitude just out of range, name is its last key
RecMars == VObj(<<M("coordinates", Coords(90, 181)), M("name", VStr("Mars"))>>)
\* no coordinates
RecNowhere == VObj(<<M("name", VStr("Nowhere"))>>)
\* one coordinate only
RecShort == VObj(<<M("coordinates", VArr(<<VNum(7)>>)), M("name", VStr("Short"))>>)
\* a coordinate that is not a number
RecText == VObj(<<M("coordinates", VArr(<<VStr("x"), VNum(3)>>)), M("name", VStr("Text"))>>)

RawRecords ==
    {RecEiffel, RecPole, RecRome, RecZero, RecOslo, RecBad, RecMars, RecNowhere, RecShort,
     RecText, VNull}

Payloads == UNION {[1..n -> RawRecords] : n \in 0..MaxRecs}

Compact(payload) == Stringify(VObj(<<M("locations", VArr(payload))>>))

\* prose, then the block laid out with whitespace, then prose
Pretty(payload) ==
    <<X("Here"), W(" "), X("are"), W("\n"), P("{"), W(" "), S("locations"), P(":"), W(" "),
      P("[")>> \o JoinElems(payload) \o <<P("]"), W("\n"), P("}"), W("\n"), X("Enjoy")>>

\* a locations block that is empty, then a single bare record
EmptyThenSingle ==
    Compact(<<>>) \o Stringify(VObj(<<M("name", VStr("Solo")), M("coordinates", VArr(<<VArr(<<>>)>>))>>))

\* a single bare record that has an empty locations member of its own
SingleOnly ==
    <<X("See"), W(" ")>>
    \o Stringify(VObj(<<M("name", VStr("Solo")), M("coordinates", VArr(<<VArr(<<>>)>>)),
                        M("locations", VArr(<<>>))>>))

\* a single bare record and nothing else in the object
BareRecord ==
    Stringify(VObj(<<M("name", VStr("Solo")), M("coordinates", VArr(<<VArr(<<>>)>>))>>))

\* the key locations twice: the later value, not an array, is the one kept
DuplicateKey ==
    Stringify(VObj(<<M("locations", VArr(<<RecPole>>)), M("locations", VNum(5)),
                     M("tags", VArr(<<>>))>>))

ProseOnly == <<X("No"), W(" "), X("places"), W(" "), X("today")>>

\* numbered lists in prose: the names their entries may carry, each entry
\* with or without " - description."
ListNames == {<<X("Louvre"), W(" "), X("Museum")>>, <<X("Rome")>>, <<X("Atlantis")>>, <<X("A")>>}
ListEntries == [name : ListNames, described : BOOLEAN]
Lists == UNION {[1..n -> ListEntries] : n \in 0..MaxRecs}

\* entries k.. as text, one per line; blank: a blank ends the text
RECURSIVE NumberedList(_, _, _)
NumberedList(entries, k, blank) ==
    IF k > Len(entries) THEN (IF blank THEN <<W(" ")>> ELSE <<>>)
    ELSE <<N(k), P("."), W(" ")>> \o entries[k].name
         \o (IF entries[k].described THEN <<W(" "), P("-"), W(" "), X("nice"), P(".")>> ELSE <<>>)
         \o (IF k < Len(entries) THEN <<W("\n")>> ELSE <<>>)
         \o NumberedList(entries, k + 1, blank)

Inputs ==
    {[payload |-> p, wrap |-> w, cut |-> 0] : p \in Payloads, w \in {"compact", "pretty"}}
    \cup {[payload |-> p, wrap |-> "cut", cut |-> c] : p \in Payloads, c \in 1..MaxCut}
    \cup {[payload |-> <<>>, wrap |-> w, cut |-> 0] :
             w \in {"prose", "empty", "emptyThenSingle", "singleOnly", "bareRecord",
                   "duplicateKey"}}
    \cup {[payload |-> <<>>, wrap |-> "list", cut |-> 0, entries |-> l, blank |-> b] :
             l \in Lists, b \in BOOLEAN}

BuildText(in) ==
    CASE in.wrap = "compact" -> Compact(in.payload)
      [] in.wrap = "pretty" -> Pretty(in.payload)
      [] in.wrap = "cut" ->
            SubSeq(Compact(in.payload), 1, Len(Compact(in.payload)) - in.cut)
      [] in.wrap = "prose" -> ProseOnly
      [] in.wrap = "empty" -> <<>>
      [] in.wrap = "emptyThenSingle" -> EmptyThenSingle
      [] in.wrap = "singleOnly" -> SingleOnly
      [] in.wrap = "bareRecord" -> BareRecord
      [] in.wrap = "duplicateKey" -> DuplicateKey
      [] in.wrap = "list" -> NumberedList(in.entries, 1, in.blank)

(***************************************************************************)
(* Collaborators of the App component whose code is elsewhere.             *)
(***************************************************************************)
\* a weather-intent marker naming a place, as one token of the reply
Wx(city) == [t |-> "wx", s |-> city, n |-> 0]

NoJson == [has |-> FALSE, text |-> <<>>]

RECURSIVE BraceEnd(_, _, _)
\* brace-depth counting from i at depth d: where the object closes, or 0
BraceEnd(t, i, d) ==
    IF i > Len(t) THEN 0
    ELSE IF IsP(t[i], "{") THEN BraceEnd(t, i + 1, d + 1)
    ELSE IF IsP(t[i], "}") THEN (IF d = 1 THEN i ELSE BraceEnd(t, i + 1, d - 1))
    ELSE BraceEnd(t, i + 1, d)

\* an opening brace that begins the text or a line, or follows the end of a sentence
JsonStarts(t) ==
    {i \in 1..Len(t) :
        /\ IsP(t[i], "{")
        /\ (i = 1 \/ t[i - 1] = W("\n") \/ t[i - 1] = X("."))}

\* chat/messageProcessor.processStreamingMessage: the weather marker takes
\* precedence; else the first balanced JSON object, null while none is
\* balanced yet.
ProcessStreamingMessage(content) ==
    LET wx == {i \in 1..Len(content) : content[i].t = "wx"} IN
    IF wx # {}
    THEN [jsonContent |-> NoJson, weatherLocation |-> content[MinOf(wx)].s]
    ELSE IF JsonStarts(content) = {} \/ BraceEnd(content, MinOf(JsonStarts(content)), 0) = 0
    THEN [jsonContent |-> NoJson, weatherLocation |-> ""]
    ELSE [jsonContent |->
              [has |-> TRUE,
               text |-> SubSeq(content, MinOf(JsonStarts(content)),
                               BraceEnd(content, MinOf(JsonStarts(content)), 0))],
          weatherLocation |-> ""]

\* cityService.getRandomCity / getCityAsLocation: the seed city as a Location
SeedCities == {"Paris"}
CityAsLocation(city) ==
    [id |-> [fmt |-> "city", now |-> 0, index |-> 0], name |-> VStr(city),
     position |-> [lat |-> VNum(48), lng |-> VNum(2)], rating |-> VNum(DefaultRating),
     reviews |-> VNum(ReviewsBase), imageUrl |-> GenerateImageUrl(VStr(city)),
     description |-> VStr("")]

\* what the reverse-geocoding service answers for a position
CityAt(lat, lng) ==
    IF lat = VNum(41) /\ lng = VNum(12) THEN "Rome"
    ELSE IF lat = VNum(90) THEN "Pole"
    ELSE IF lat = VNum(48) /\ lng = VNum(2) THEN "Paris"
    ELSE "Somewhere"

(***************************************************************************)
(* The replies the model can stream, each as its chunks.                   *)
(***************************************************************************)
FirstHalf(t) == SubSeq(t, 1, Len(t) \div 2)
SecondHalf(t) == SubSeq(t, Len(t) \div 2 + 1, Len(t))

Chunks(reply) ==
    CASE reply = "rome" ->
            <<<<X("Visit"), X("."), W("\n")>>, FirstHalf(Compact(<<RecRome>>)),
              SecondHalf(Compact(<<RecRome>>))>>
      [] reply = "mars" ->
            <<<<X("Far"), W("\n")>> \o FirstHalf(Compact(<<RecMars>>)),
              SecondHalf(Compact(<<RecMars>>))>>
      [] reply = "weather" ->
            <<<<X("Checking"), W(" ")>>, <<Wx("Oslo")>>>>
      [] reply = "both" ->
            <<<<Wx("Oslo"), W("\n")>> \o FirstHalf(Compact(<<RecRome>>)),
              SecondHalf(Compact(<<RecRome>>))>>

Replies == {"rome", "mars", "weather"}

\* a reply that carries a weather marker and a location block
MarkerAndBlock == [type |-> "chat", reply |-> "both", location |-> ""]

\* chat/queryValidator.validateQuery: a weather query, with or without a
\* place, or a chat query (which the model answers with one of the replies)
Queries ==
    {[type |-> "chat", reply |-> r, location |-> ""] : r \in Replies}
    \cup {[type |-> "weather", reply |-> "", location |-> l] : l \in {"", "Oslo"}}

(***************************************************************************)
(* State.                                                                  *)
(***************************************************************************)
MaxSends == 2
MaxSelects == 1
MaxFlips == 2
MaxRenders == 1
MaxChunks == 3

VARIABLES
    input,              \* how the text given to the parser was built
    text,               \* the text given to the parser
    called,             \* which entry point was called on it
    strictResult,       \* what parseJsonLocations returned or threw
    permissiveResult,   \* what extractLocationsFromResponse returned
    textResult,         \* what parseTextLocations returned
    lookupFails,        \* the names getCoordinates throws for during that call
    messages,           \* App: the chat messages
    locations,          \* App: the displayed locations list
    selectedLocation,   \* App: the selected location, if any
    isLoading,
    isStreaming,
    currentStreamingMessage,
    error,
    currentWeatherLocation,
    cityContext,        \* the city-context register (cityContext singleton)
    sends,              \* how many times handleSendMessage was called
    selects,            \* how many times the user selected a location
    streams,            \* each handleSendMessage call at its for-await loop
    effectDep,          \* the dependency the streaming effect last ran with
    lookups,            \* reverse-geocoding requests in flight
    cmStreaming,        \* ChatMessage: the isStreaming prop
    cmDep,              \* ChatMessage: the dependencies its effect last ran with
    displayContent,     \* ChatMessage state
    cmLocations,        \* ChatMessage state: locations
    cmWeatherLocation,  \* ChatMessage state: weatherLocation
    showLocations,      \* ChatMessage state
    processedRef,       \* ChatMessage ref
    lastProcessedContentRef,
    timers,             \* ChatMessage: setTimeout callbacks not yet run
    flips,              \* how many times the isStreaming prop changed
    handed,             \* history: the calls of onLocationsUpdate
    delivered,          \* history: how many contents the streams have set
    contentFrom,        \* history: the call whose chunk set the current content
    req,                \* chat API handler: the request
    res,                \* chat API handler: the response so far
    pc,                 \* chat API handler: where the handler is
    chunks,             \* chat API handler: how many chunks the model stream gave
    mapLocations,       \* MapUpdater: the locations prop
    mapSelected,        \* MapUpdater: the selectedLocation prop
    renders,            \* how many times the parent rendered MapUpdater with new props
    isAnimating,        \* MapUpdater: state
    timeoutRef,         \* MapUpdater: whether the timer of timeoutRef.current is pending
    lastFlight,         \* history: the last flyTo / flyToBounds call on the map
    selectionRun,       \* MapUpdater: the last run of the selection effect
    locationsRun,       \* MapUpdater: the last run of the locations effect
    latest,             \* history: the lookup started last, and whether it answered a city
    shown               \* history: the delivery the displayed batch was extracted
                        \* from, the call that made it, the message it was set on

parserVars ==
    <<input, text, called, strictResult, permissiveResult, textResult, lookupFails>>
appVars ==
    <<messages, locations, selectedLocation, isLoading, isStreaming, currentStreamingMessage,
      error, currentWeatherLocation, cityContext, sends, selects, streams, effectDep, lookups>>
apiVars == <<req, res, pc, chunks>>
mapVars ==
    <<mapLocations, mapSelected, renders, isAnimating, timeoutRef, lastFlight, selectionRun,
      locationsRun>>
messageVars ==
    <<cmStreaming, cmDep, displayContent, cmLocations, cmWeatherLocation, showLocations,
      processedRef, lastProcessedContentRef, timers, flips, handed>>
historyVars == <<delivered, contentFrom, shown, latest>>
vars == <<parserVars, appVars, messageVars, mapVars, apiVars, historyVars>>

NotCalled == [th |-> "notcalled", name |-> VUndef, val |-> <<>>]

\* Date.now() at element i of one call: the whole call inside one
\* millisecond, or the clock ticking between the elements.
ClockStart == 1
Clock(tick) == [i \in 1..(MaxRecs + 1) |-> IF tick THEN ClockStart + i ELSE ClockStart]

NoMessage == [id |-> 0, content |-> <<>>]
NoError == "<null>"
NoCity == "<null>"
NoSelection == [id |-> [fmt |-> "none", now |-> 0, index |-> 0]]
WelcomeId == 1
UserId(k) == 2 * k
BotId(k) == 2 * k + 1
IdleStream == [st |-> "idle", reply |-> "", next |-> 0, fullResponse |-> <<>>]

\* no reverse-geocoding lookup was started yet
NoLookup == [nth |-> 0, lat |-> VUndef, lng |-> VUndef, ok |-> FALSE]

\* the chat API handler before a request arrives
NoRequest == [method |-> "", body |-> "undefined"]
NoResponse == [headersSent |-> FALSE, statusCode |-> 0, json |-> "", written |-> <<>>,
               ended |-> FALSE]
HandlerIdle ==
    /\ req = NoRequest
    /\ res = NoResponse
    /\ pc = "idle"
    /\ chunks = 0

\* MapUpdater before its effects ran for the first time, with the props of
\* the App's first render: the seed city listed and selected
NoFlight == [kind |-> "none", lat |-> VUndef, lng |-> VUndef, zoom |-> 0,
             bounds |-> [south |-> 0, west |-> 0, north |-> 0, east |-> 0], n |-> 0]
NoPlace == [some |-> FALSE, position |-> [lat |-> VUndef, lng |-> VUndef]]
NotRun == [ran |-> FALSE, locations |-> <<>>, selected |-> NoPlace, cleanup |-> FALSE]
MapUpdaterMounted(initialLocation) ==
    /\ mapLocations = <<initialLocation>>
    /\ mapSelected = [some |-> TRUE, position |-> initialLocation.position]
    /\ renders = 0
    /\ isAnimating = FALSE
    /\ timeoutRef = FALSE
    /\ lastFlight = NoFlight
    /\ selectionRun = NotRun
    /\ locationsRun = NotRun

\* the dependencies of ChatMessage's effect before its first run
NoDeps == [ran |-> FALSE, content |-> <<>>, isStreaming |-> FALSE]

\* the value of currentStreamingMessage?.content
Dep(m) == IF m.id = 0 THEN [def |-> FALSE, content |-> <<>>]
          ELSE [def |-> TRUE, content |-> m.content]

ParserIdle ==
    /\ input = [payload |-> <<>>, wrap |-> "empty", cut |-> 0]
    /\ text = <<>>
    /\ called = "none"
    /\ strictResult = NotCalled
    /\ permissiveResult = NotCalled
    /\ textResult = NotCalled
    /\ lookupFails = {}

\* the App after its first render and mount effects (lines 14-35)
AppMounted ==
    \E city \in SeedCities :
        /\ messages = <<[id |-> WelcomeId, sender |-> "bot", content |-> <<X("Welcome")>>]>>
        /\ locations = <<CityAsLocation(city)>>
        /\ selectedLocation = [id |-> CityAsLocation(city).id]
        /\ isLoading = FALSE
        /\ isStreaming = FALSE
        /\ currentStreamingMessage = NoMessage
        /\ error = NoError
        /\ currentWeatherLocation = NoCity
        /\ cityContext = city
        /\ sends = 0
        /\ selects = 0
        /\ streams = [k \in 1..MaxSends |-> IdleStream]
        /\ effectDep = Dep(NoMessage)
        /\ lookups = {}
        /\ delivered = 0
        /\ contentFrom = 0
        /\ shown = [seq |-> 0, from |-> 0, for |-> 0]
        /\ latest = NoLookup
        /\ MapUpdaterMounted([position |-> CityAsLocation(city).position])
        /\ HandlerIdle
        /\ cmStreaming = FALSE
        /\ cmDep = NoDeps
        /\ displayContent = <<>>
        /\ cmLocations = <<>>
        /\ cmWeatherLocation = NoCity
        /\ showLocations = FALSE
        /\ processedRef = FALSE
        /\ lastProcessedContentRef = <<>>
        /\ timers = {}
        /\ flips = 0
        /\ handed = <<>>

InitParser ==
    /\ input \in Inputs
    /\ text = BuildText(input)
    /\ called = "none"
    /\ strictResult = NotCalled
    /\ permissiveResult = NotCalled
    /\ textResult = NotCalled
    /\ lookupFails = {}
    /\ AppMounted

CallParseJsonLocations ==
    /\ called = "none"
    /\ \E tick \in BOOLEAN :
           strictResult' = ParseJsonLocations(text, Clock(tick))
    /\ called' = "strict"
    /\ UNCHANGED <<input, text, permissiveResult, textResult, lookupFails, appVars, messageVars, mapVars, apiVars,
                   historyVars>>

CallExtractLocationsFromResponse ==
    /\ called = "none"
    /\ \E tick \in BOOLEAN, rnd \in [1..(MaxRecs + 1) -> RandomFloors] :
           permissiveResult' = ExtractLocationsFromResponse(text, Clock(tick), rnd)
    /\ called' = "permissive"
    /\ UNCHANGED <<input, text, strictResult, textResult, lookupFails, appVars, messageVars, mapVars, apiVars,
                   historyVars>>

\* a lookup miss may throw: the names outside the table of known places
MayFail == ListNames \ KnownPlaces

CallParseTextLocations ==
    /\ called = "none"
    /\ \E tick \in BOOLEAN, rnd \in RandomFloors, failing \in SUBSET MayFail :
           /\ textResult' = ParseTextLocations(text, failing, Clock(tick), rnd)
           /\ lookupFails' = failing
    /\ called' = "text"
    /\ UNCHANGED <<input, text, strictResult, permissiveResult, appVars, messageVars, mapVars, apiVars,
                   historyVars>>

NextParser ==
    \/ CallParseJsonLocations
    \/ CallExtractLocationsFromResponse
    \/ CallParseTextLocations

SpecParser == InitParser /\ [][NextParser]_vars

(***************************************************************************)
(* App.tsx                                                                 *)
(***************************************************************************)
SetContent(msgs, id, content) ==
    [i \in 1..Len(msgs) |-> IF msgs[i].id = id THEN [msgs[i] EXCEPT !.content = content]
                            ELSE msgs[i]]

\* handleSendMessage(content), up to its first await (lines 113-168)
SendMessage(q) ==
    /\ sends < MaxSends
    /\ sends' = sends + 1
    /\ error' = NoError
    /\ selectedLocation' = NoSelection
    /\ IF q.type = "weather"
       THEN /\ currentWeatherLocation' = (IF q.location # "" THEN q.location ELSE cityContext)
            /\ messages' = messages
                   \o <<[id |-> UserId(sends + 1), sender |-> "user", content |-> <<X("weather?")>>],
                        [id |-> BotId(sends + 1), sender |-> "bot", content |-> <<X("Let me check")>>]>>
            /\ isLoading' = FALSE
            /\ isStreaming' = FALSE
            /\ streams' = [streams EXCEPT ![sends + 1].st = "closed"]
            /\ UNCHANGED <<currentStreamingMessage, contentFrom>>
       ELSE /\ messages' = messages
                   \o <<[id |-> UserId(sends + 1), sender |-> "user", content |-> <<X("where?")>>],
                        [id |-> BotId(sends + 1), sender |-> "bot", content |-> <<>>]>>
            /\ isLoading' = TRUE
            /\ isStreaming' = TRUE
            /\ currentStreamingMessage' = [id |-> BotId(sends + 1), content |-> <<>>]
            /\ contentFrom' = sends + 1
            /\ streams' = [streams EXCEPT ![sends + 1] =
                              [st |-> "open", reply |-> q.reply, next |-> 1, fullResponse |-> <<>>]]
            /\ UNCHANGED currentWeatherLocation
    /\ UNCHANGED <<parserVars, messageVars, mapVars, apiVars, locations, cityContext, selects, effectDep, lookups, delivered,
                   shown, latest>>

\* one turn of the for-await loop of call k (lines 170-185)
StreamChunk(k) ==
    /\ streams[k].st = "open"
    /\ streams[k].next <= Len(Chunks(streams[k].reply))
    /\ LET fullResponse == streams[k].fullResponse \o Chunks(streams[k].reply)[streams[k].next] IN
       /\ streams' = [streams EXCEPT ![k].fullResponse = fullResponse, ![k].next = @ + 1]
       /\ currentStreamingMessage' =
              IF currentStreamingMessage.id # 0
              THEN [currentStreamingMessage EXCEPT !.content = fullResponse]
              ELSE NoMessage
       /\ messages' = SetContent(messages, BotId(k), fullResponse)
       /\ delivered' = IF currentStreamingMessage.id # 0 THEN delivered + 1 ELSE delivered
       /\ contentFrom' = IF currentStreamingMessage.id # 0 THEN k ELSE contentFrom
    /\ UNCHANGED <<parserVars, messageVars, mapVars, apiVars, locations, selectedLocation, isLoading, isStreaming, error,
                   currentWeatherLocation, cityContext, sends, selects, effectDep, lookups,
                   shown, latest>>

\* a slip: the finally block without setIsLoading(false)
FinallyLeavingLoading(k) ==
    /\ isLoading' = isLoading
    /\ isStreaming' = FALSE
    /\ currentStreamingMessage' = NoMessage
    /\ streams' = [streams EXCEPT ![k].st = "closed"]

\* the finally block (lines 198-202)
Finally(k) ==
    /\ isLoading' = FALSE
    /\ isStreaming' = FALSE
    /\ currentStreamingMessage' = NoMessage
    /\ streams' = [streams EXCEPT ![k].st = "closed"]

\* the stream of call k ends: the loop exits and finally runs
StreamEnd(k) ==
    /\ streams[k].st = "open"
    /\ streams[k].next > Len(Chunks(streams[k].reply))
    /\ Finally(k)
    /\ UNCHANGED <<parserVars, messageVars, mapVars, apiVars, messages, locations, selectedLocation, error,
                   currentWeatherLocation, cityContext, sends, selects, effectDep, lookups,
                   historyVars>>

StreamErrors == {"Failed to fetch"}

\* the stream of call k throws: catch (lines 186-197), then finally
StreamFail(k) ==
    /\ streams[k].st = "open"
    /\ streams[k].next <= Len(Chunks(streams[k].reply))
    /\ \E e \in StreamErrors :
           /\ error' = e
           /\ messages' = SetContent(messages, BotId(k), <<X("I'm sorry, I encountered an error:"), X(e)>>)
    /\ Finally(k)
    /\ UNCHANGED <<parserVars, messageVars, mapVars, apiVars, locations, selectedLocation, currentWeatherLocation, cityContext,
                   sends, selects, effectDep, lookups, historyVars>>

\* a slip: the new batch appended to the displayed list
SetLocationsAppending(prev, newLocations) == prev \o newLocations

\* setLocations(newLocations) (line 83): the state's next value
SetLocations(prev, newLocations) == newLocations

\* a slip: a weather reply also clears the displayed list
WeatherDetectedClearingLocations(weatherLocation) ==
    /\ currentWeatherLocation' = weatherLocation
    /\ locations' = <<>>
    /\ UNCHANGED <<lookups, shown, latest>>

\* the weather branch of the effect (lines 66-70)
WeatherDetected(weatherLocation) ==
    /\ currentWeatherLocation' = weatherLocation
    /\ UNCHANGED <<locations, lookups, shown, latest>>

\* The effect on currentStreamingMessage?.content (lines 62-98): React runs
\* it after a render in which that value changed.  Math.random is drawn at
\* either end of its range, the same end for every record of one batch.
StreamingEffect ==
    /\ Dep(currentStreamingMessage) # effectDep
    /\ effectDep' = Dep(currentStreamingMessage)
    /\ IF currentStreamingMessage.id = 0 \/ currentStreamingMessage.content = <<>>
       THEN UNCHANGED <<locations, currentWeatherLocation, lookups, shown, latest>>
       ELSE LET split == ProcessStreamingMessage(currentStreamingMessage.content) IN
            IF split.weatherLocation # ""
            THEN WeatherDetected(split.weatherLocation)
            ELSE IF ~split.jsonContent.has
            THEN UNCHANGED <<locations, currentWeatherLocation, lookups, shown, latest>>
            ELSE \E tick \in BOOLEAN, r \in RandomFloors :
                    LET newLocations ==
                            ExtractLocationsFromResponse(split.jsonContent.text, Clock(tick),
                                                         [i \in 1..(MaxRecs + 1) |-> r]).val
                    IN  IF Len(newLocations) > 0
                        THEN /\ locations' = SetLocations(locations, newLocations)
                             /\ lookups' = lookups \cup
                                    {[lat |-> newLocations[1].position.lat,
                                      lng |-> newLocations[1].position.lng,
                                      batch |-> newLocations, seq |-> delivered,
                                      from |-> contentFrom, kind |-> "batch",
                                      nth |-> latest.nth + 1]}
                             /\ latest' = [nth |-> latest.nth + 1,
                                            lat |-> newLocations[1].position.lat,
                                            lng |-> newLocations[1].position.lng,
                                            ok |-> FALSE]
                             /\ shown' = [seq |-> delivered, from |-> contentFrom,
                                           for |-> currentStreamingMessage.id]
                             /\ UNCHANGED currentWeatherLocation
                        ELSE UNCHANGED <<locations, currentWeatherLocation, lookups, shown, latest>>
    /\ UNCHANGED <<parserVars, messageVars, mapVars, apiVars, messages, selectedLocation, isLoading, isStreaming,
                   currentStreamingMessage, error, cityContext, sends, selects, streams,
                   delivered, contentFrom>>

\* a slip: the batch is displayed by the .then callback, when its lookup answers
LookupResolvedSettingLocations(l) ==
    /\ l \in lookups
    /\ lookups' = lookups \ {l}
    /\ locations' = l.batch
    /\ shown' = [seq |-> l.seq, from |-> l.from, for |-> shown.for]
    /\ \E cityName \in {CityAt(l.lat, l.lng), ""} :
           IF cityName # ""
           THEN cityContext' = cityName /\ currentWeatherLocation' = cityName
           ELSE UNCHANGED <<cityContext, currentWeatherLocation>>
    /\ UNCHANGED <<parserVars, messageVars, mapVars, apiVars, messages, selectedLocation, isLoading, isStreaming,
                   currentStreamingMessage, error, sends, selects, streams, effectDep,
                   delivered, contentFrom, latest>>

\* getCityFromCoordinates (lines 38-60) answers: the city, or '' when the
\* request fails; then the .then callback of the effect (lines 88-94) or
\* the rest of handleLocationSelect (lines 106-110), which do the same.
LookupResolved(l) ==
    /\ l \in lookups
    /\ lookups' = lookups \ {l}
    /\ \E cityName \in {CityAt(l.lat, l.lng), ""} :
           /\ IF cityName # ""
              THEN cityContext' = cityName /\ currentWeatherLocation' = cityName
              ELSE UNCHANGED <<cityContext, currentWeatherLocation>>
           /\ latest' = IF l.nth = latest.nth THEN [latest EXCEPT !.ok = (cityName # "")]
                        ELSE latest
    /\ UNCHANGED <<parserVars, messageVars, mapVars, apiVars, messages, locations, selectedLocation, isLoading, isStreaming,
                   currentStreamingMessage, error, sends, selects, streams, effectDep,
                   delivered, contentFrom, shown>>

\* handleLocationSelect(location) (lines 100-111), up to its await: the
\* user picks the i-th displayed location on the map or in the chat
SelectLocation(i) ==
    /\ selects < MaxSelects
    /\ i \in 1..Len(locations)
    /\ selects' = selects + 1
    /\ selectedLocation' = [id |-> locations[i].id]
    /\ lookups' = lookups \cup
           {[lat |-> locations[i].position.lat, lng |-> locations[i].position.lng,
             batch |-> <<locations[i]>>, seq |-> delivered, from |-> contentFrom,
             kind |-> "select", nth |-> latest.nth + 1]}
    /\ latest' = [nth |-> latest.nth + 1, lat |-> locations[i].position.lat,
                  lng |-> locations[i].position.lng, ok |-> FALSE]
    /\ UNCHANGED <<parserVars, messageVars, mapVars, apiVars, messages, locations, isLoading, isStreaming,
                   currentStreamingMessage, error, currentWeatherLocation, cityContext, sends,
                   streams, effectDep, delivered, contentFrom, shown>>

(***************************************************************************)
(* ChatMessage (unnamed/part_001): the instance that renders the bot       *)
(* message of the first handleSendMessage call.                            *)
(***************************************************************************)
\* chat/messageProcessor.processStreamingMessage, textContent: the prose
\* before the weather marker or before the JSON block, ends trimmed
TextContent(content) ==
    LET wx == {i \in 1..Len(content) : content[i].t = "wx"} IN
    IF wx # {} THEN TrimTokens(SubSeq(content, 1, MinOf(wx) - 1))
    ELSE IF JsonStarts(content) # {}
    THEN TrimTokens(SubSeq(content, 1, MinOf(JsonStarts(content)) - 1))
    ELSE TrimTokens(content)

ChatMessageReviews == 1000

\* the image URL built from loc.name + ' landmark' (line 102)
LandmarkImageUrl(name) ==
    [t |-> "img", n |-> 1, s |-> IF name.t = "str" THEN name.s ELSE "", a |-> <<>>, o |-> <<>>]

\* the filter of lines 90
KeepsRecord(loc) ==
    /\ Truthy(loc)
    /\ Truthy(Get(loc, "coordinates"))
    /\ Get(loc, "coordinates").t = "arr"
    /\ Len(Get(loc, "coordinates").a) = 2

\* the map callback of lines 91-104
ChatMessageLocation(loc, index, now) ==
    [id |-> PermissiveId(now, index),
     name |-> Get(loc, "name"),
     city |-> Get(loc, "city"),
     country |-> Get(loc, "country"),
     position |-> [lat |-> ToNumber(Index(Get(loc, "coordinates"), 0)),
                   lng |-> ToNumber(Index(Get(loc, "coordinates"), 1))],
     rating |-> Or(Get(loc, "rating"), VNum(DefaultRating)),
     reviews |-> Or(Get(loc, "reviews"), VNum(ChatMessageReviews)),
     imageUrl |-> Or(Get(loc, "image"), LandmarkImageUrl(Get(loc, "name"))),
     description |-> Or(Get(loc, "description"), VStr(""))]

\* extractCityName(location) (lines 19-33) on names without a comma; a city
\* or a name that is no string has no trim or split: TypeError
ExtractCityName(location) ==
    IF Truthy(location.city)
    THEN (IF location.city.t = "str" THEN [th |-> "none", city |-> Trim(location.city.s)]
          ELSE [th |-> "TypeError", city |-> ""])
    ELSE IF location.name.t = "str" THEN [th |-> "none", city |-> Trim(location.name.s)]
    ELSE [th |-> "TypeError", city |-> ""]

NothingProcessed == [hand |-> FALSE, locations |-> <<>>, city |-> ""]

\* lines 86-131 up to the calls: the batch to hand on and the city to
\* write, or nothing (no array, nothing kept, or an error caught at 129)
ProcessedLocations(jsonContent, now) ==
    LET data == JSONParse(jsonContent) IN
    IF ~data.ok THEN NothingProcessed
    ELSE IF ~(Truthy(Get(data.v, "locations")) /\ Get(data.v, "locations").t = "arr")
    THEN NothingProcessed
    ELSE LET kept == SelectSeq(Get(data.v, "locations").a, KeepsRecord)
             processedLocations ==
                 [i \in 1..Len(kept) |-> ChatMessageLocation(kept[i], i - 1, now[i])]
         IN  IF Len(kept) = 0 THEN NothingProcessed
             ELSE IF ExtractCityName(processedLocations[1]).th # "none" THEN NothingProcessed
             ELSE [hand |-> TRUE, locations |-> processedLocations,
                   city |-> ExtractCityName(processedLocations[1]).city]

\* the content of the message with the given id
MessageContent(id) ==
    messages[MinOf({i \in 1..Len(messages) : messages[i].id = id})].content

\* the message and isStreaming dependencies of the effect
ChatMessageDeps ==
    [ran |-> TRUE, content |-> MessageContent(BotId(1)), isStreaming |-> cmStreaming]

\* the parent renders the message with the other value of isStreaming
ChatMessageProps ==
    /\ sends >= 1
    /\ flips < MaxFlips
    /\ flips' = flips + 1
    /\ cmStreaming' = ~cmStreaming
    /\ UNCHANGED <<parserVars, mapVars, apiVars, appVars, historyVars, cmDep, displayContent, cmLocations,
                   cmWeatherLocation, showLocations, processedRef, lastProcessedContentRef,
                   timers, handed>>

\* the weather branch of the effect (lines 73-77)
WeatherBranch(weatherLocation, content) ==
    /\ cmWeatherLocation' = weatherLocation
    /\ displayContent' = TextContent(content)
    /\ UNCHANGED <<cityContext, cmLocations, showLocations, timers, handed>>

\* a slip: the test without the processed flag
ShouldProcessAgain(hasJson, streaming, processed) == hasJson /\ ~streaming

\* the test before the block is parsed (line 85)
ShouldProcess(hasJson, streaming, processed) == hasJson /\ ~streaming /\ ~processed

\* The effect of ChatMessage (lines 50-139), run after a render in which
\* message or isStreaming changed.  App never sets message.type; the
\* parent passes both callbacks.
ChatMessageEffect ==
    /\ sends >= 1
    /\ ChatMessageDeps # cmDep
    /\ cmDep' = ChatMessageDeps
    /\ LET content == MessageContent(BotId(1))
           processed == IF content # lastProcessedContentRef THEN FALSE ELSE processedRef
           split == ProcessStreamingMessage(content)
       IN  /\ lastProcessedContentRef' = content
           /\ IF content = <<>>
              THEN /\ displayContent' = (IF cmStreaming THEN <<X("Thinking...")>> ELSE <<>>)
                   /\ processedRef' = processed
                   /\ UNCHANGED <<cityContext, cmLocations, cmWeatherLocation, showLocations,
                                  timers, handed>>
              ELSE IF split.weatherLocation # ""
              THEN /\ WeatherBranch(split.weatherLocation, content)
                   /\ processedRef' = processed
              ELSE /\ displayContent' =
                          (IF TextContent(content) # <<>> THEN TextContent(content)
                           ELSE displayContent)
                   /\ UNCHANGED <<cmWeatherLocation, showLocations>>
                   /\ IF ShouldProcess(split.jsonContent.has, cmStreaming, processed)
                      THEN \E tick \in BOOLEAN :
                              LET r == ProcessedLocations(split.jsonContent.text, Clock(tick)) IN
                              IF r.hand
                              THEN /\ cityContext' = r.city
                                   /\ processedRef' = TRUE
                                   /\ handed' = Append(handed,
                                          [content |-> content, isStreaming |-> cmStreaming,
                                           locations |-> r.locations])
                                   /\ cmLocations' = r.locations
                                   /\ timers' = timers \cup {r.locations[1]}
                              ELSE /\ processedRef' = processed
                                   /\ UNCHANGED <<cityContext, cmLocations, timers, handed>>
                      ELSE /\ processedRef' = processed
                           /\ UNCHANGED <<cityContext, cmLocations, timers, handed>>
    /\ UNCHANGED <<parserVars, mapVars, apiVars, historyVars, messages, locations, selectedLocation, isLoading,
                   isStreaming, currentStreamingMessage, error, currentWeatherLocation, sends,
                   selects, streams, effectDep, lookups, cmStreaming, flips>>

\* the setTimeout callback (lines 123-126); onLocationSelect is App's
\* handleLocationSelect
ChatMessageTimer(first) ==
    /\ first \in timers
    /\ timers' = timers \ {first}
    /\ showLocations' = TRUE
    /\ selectedLocation' = [id |-> first.id]
    /\ lookups' = lookups \cup
           {[lat |-> first.position.lat, lng |-> first.position.lng, batch |-> <<first>>,
             seq |-> delivered, from |-> contentFrom, kind |-> "select",
             nth |-> latest.nth + 1]}
    /\ latest' = [nth |-> latest.nth + 1, lat |-> first.position.lat,
                  lng |-> first.position.lng, ok |-> FALSE]
    /\ UNCHANGED <<parserVars, mapVars, apiVars, delivered, contentFrom, shown, messages, locations, isLoading, isStreaming,
                   currentStreamingMessage, error, currentWeatherLocation, cityContext, sends,
                   selects, streams, effectDep, cmStreaming, cmDep, displayContent,
                   cmLocations, cmWeatherLocation, processedRef, lastProcessedContentRef,
                   flips, handed>>

(***************************************************************************)
(* components/map/MapUpdater.tsx                                           *)
(***************************************************************************)
\* the positions a displayed Location can carry: numbers in and out of
\* range, and what a block with null, missing or textual coordinates leaves
MapPositions ==
    {[lat |-> VNum(48), lng |-> VNum(2)], [lat |-> VNum(90), lng |-> VNum(-180)],
     [lat |-> VNum(200), lng |-> VNum(0)], [lat |-> VNull, lng |-> VNum(3)],
     [lat |-> VNum(7), lng |-> VUndef], [lat |-> VStr("x"), lng |-> VNum(3)]}

MapPlaces == {[position |-> p] : p \in MapPositions}
MapLists == UNION {[1..n -> MapPlaces] : n \in 0..MaxRecs}
MapSelections == {NoPlace} \cup {[some |-> TRUE, position |-> p] : p \in MapPositions}

\* the global isNaN: its argument is converted to a number first
IsNaN(v) == ToNumber(v).t = "nan"

\* isValidCoordinates(lat, lng) (lines 163-167); the comparisons convert
\* their operands to numbers
MapIsValidCoordinates(lat, lng) ==
    /\ ~IsNaN(lat) /\ ~IsNaN(lng)
    /\ Ge(ToNumber(lat), LatMin) /\ Le(ToNumber(lat), LatMax)
    /\ Ge(ToNumber(lng), LngMin) /\ Le(ToNumber(lng), LngMax)

\* the filter callback of the locations effect (lines 83-95)
IsValid(loc) ==
    /\ ~Nullish(loc.position.lat)
    /\ ~Nullish(loc.position.lng)
    /\ MapIsValidCoordinates(loc.position.lat, loc.position.lng)

SelectionZoom == 17
LocationsZoom == 13
BufferRatio == 2

\* new LatLngBounds(points).pad(0.2) (lines 120-131), in tenths of a
\* degree: Leaflet extends each side by the ratio of the extent, unclamped
PaddedBounds(points) ==
    LET lats == {points[i].position.lat.n : i \in 1..Len(points)}
        lngs == {points[i].position.lng.n : i \in 1..Len(points)}
        heightBuffer == (MaxOf(lats) - MinOf(lats)) * BufferRatio
        widthBuffer == (MaxOf(lngs) - MinOf(lngs)) * BufferRatio
    IN  [south |-> MinOf(lats) * 10 - heightBuffer, west |-> MinOf(lngs) * 10 - widthBuffer,
         north |-> MaxOf(lats) * 10 + heightBuffer, east |-> MaxOf(lngs) * 10 + widthBuffer]

\* map.flyTo([lat, lng], zoom, ...)
FlyTo(lat, lng, zoom) ==
    [kind |-> "flyTo", lat |-> lat, lng |-> lng, zoom |-> zoom, bounds |-> NoFlight.bounds,
     n |-> lastFlight.n + 1]

\* map.flyToBounds(paddedBounds, ...)
FlyToBounds(paddedBounds) ==
    [kind |-> "flyToBounds", lat |-> VUndef, lng |-> VUndef, zoom |-> LocationsZoom,
     bounds |-> paddedBounds, n |-> lastFlight.n + 1]

\* the parent renders MapUpdater with other props
MapRender ==
    /\ renders < MaxRenders
    /\ renders' = renders + 1
    /\ mapLocations' \in MapLists
    /\ mapSelected' \in MapSelections
    /\ <<mapLocations', mapSelected'>> # <<mapLocations, mapSelected>>
    /\ UNCHANGED <<parserVars, appVars, messageVars, historyVars, apiVars, isAnimating, timeoutRef,
                   lastFlight, selectionRun, locationsRun>>

\* The effect on [selectedLocation, map] (lines 20-67); the cleanup the
\* previous run returned (lines 62-66) runs first.
SelectionEffect ==
    /\ ~selectionRun.ran \/ selectionRun.selected # mapSelected
    /\ LET pending == timeoutRef /\ ~selectionRun.cleanup
           lat == mapSelected.position.lat
           lng == mapSelected.position.lng
       IN  IF ~mapSelected.some \/ ~MapIsValidCoordinates(lat, lng)
           THEN /\ selectionRun' = [NotRun EXCEPT !.ran = TRUE, !.selected = mapSelected]
                /\ timeoutRef' = pending
                /\ UNCHANGED <<isAnimating, lastFlight>>
           ELSE /\ selectionRun' = [NotRun EXCEPT !.ran = TRUE, !.selected = mapSelected,
                                                 !.cleanup = TRUE]
                /\ isAnimating' = TRUE
                /\ lastFlight' = FlyTo(lat, lng, SelectionZoom)
                /\ timeoutRef' = TRUE
    /\ UNCHANGED <<parserVars, appVars, messageVars, historyVars, apiVars, mapLocations, mapSelected,
                   renders, locationsRun>>

\* The effect on [locations, map, selectedLocation] (lines 70-158); the
\* cleanup the previous run returned (lines 153-157) runs first.
LocationsEffect ==
    /\ \/ ~locationsRun.ran
       \/ locationsRun.locations # mapLocations
       \/ locationsRun.selected # mapSelected
    /\ LET pending == timeoutRef /\ ~locationsRun.cleanup
           validLocations == SelectSeq(mapLocations, IsValid)
           ran == [NotRun EXCEPT !.ran = TRUE, !.locations = mapLocations,
                                 !.selected = mapSelected]
       IN  IF Len(mapLocations) = 0 \/ mapSelected.some \/ Len(validLocations) = 0
           THEN /\ locationsRun' = ran
                /\ timeoutRef' = pending
                /\ UNCHANGED <<isAnimating, lastFlight>>
           ELSE /\ locationsRun' = [ran EXCEPT !.cleanup = TRUE]
                /\ isAnimating' = TRUE
                /\ lastFlight' =
                       IF Len(validLocations) = 1
                       THEN FlyTo(validLocations[1].position.lat,
                                  validLocations[1].position.lng, LocationsZoom)
                       ELSE FlyToBounds(PaddedBounds(validLocations))
                /\ timeoutRef' = TRUE
    /\ UNCHANGED <<parserVars, appVars, messageVars, historyVars, apiVars, mapLocations, mapSelected,
                   renders, selectionRun>>

\* the timer set at lines 53-56 or 144-147 fires
AnimationComplete ==
    /\ timeoutRef
    /\ timeoutRef' = FALSE
    /\ isAnimating' = FALSE
    /\ UNCHANGED <<parserVars, appVars, messageVars, historyVars, apiVars, mapLocations, mapSelected,
                   renders, lastFlight, selectionRun, locationsRun>>

NextMap == MapRender \/ SelectionEffect \/ LocationsEffect \/ AnimationComplete

(***************************************************************************)
(* api/chat.ts (in components/ChatMessage.tsx): the chat API handler       *)
(***************************************************************************)
\* the requests drawn: the method, and what req.body holds
Requests ==
    {[method |-> m, body |-> b] :
        m \in {"OPTIONS", "GET", "POST"},
        b \in {"messages", "no messages", "messages not array", "undefined"}}

\* what the stream, or its creation, can throw: Errors by the words of
\* their message, and a value that is no Error
StreamThrowables ==
    {[isError |-> TRUE, message |-> <<"status", "401">>],
     [isError |-> TRUE, message |-> <<"429", "then", "401">>],
     [isError |-> TRUE, message |-> <<"413">>],
     [isError |-> TRUE, message |-> <<"socket", "hang", "up">>],
     [isError |-> FALSE, message |-> <<"401">>]}

\* errorMessage.includes(code)
Includes(message, code) == \E i \in 1..Len(message) : message[i] = code

\* res.status(code).json(body): the headers and the body are sent, and the
\* response ends
Json(code, body) ==
    [res EXCEPT !.headersSent = TRUE, !.statusCode = code, !.json = body, !.ended = TRUE]

\* res.write(event) for each event in turn: the first write sends the headers
Write(r, events) == [r EXCEPT !.headersSent = TRUE, !.written = @ \o events]

\* the status and the body of the JSON error response (lines 221-260)
ErrorResponse(e) ==
    IF ~e.isError THEN Json(500, "Unknown error occurred")
    ELSE IF Includes(e.message, "401") THEN Json(401, "Authentication failed")
    ELSE IF Includes(e.message, "429") THEN Json(429, "Rate limit exceeded")
    ELSE IF Includes(e.message, "413") THEN Json(413, "Payload too large")
    ELSE Json(500, "Internal server error")

\* a slip: the catch block without the test of res.headersSent
CatchAlwaysJson(e) ==
    /\ res' = ErrorResponse(e)
    /\ pc' = "returned"

\* the catch block (lines 215-271)
Catch(e) ==
    /\ res' = IF ~res.headersSent THEN ErrorResponse(e)
              ELSE [Write(res, <<"error", "[DONE]">>) EXCEPT !.ended = TRUE]
    /\ pc' = "returned"

\* handler(req, res) up to the await of the stream's creation (lines 164-197)
Handler ==
    /\ pc = "idle"
    /\ \E r \in Requests :
           /\ req' = r
           /\ IF r.method = "OPTIONS"
              THEN /\ res' = [res EXCEPT !.headersSent = TRUE, !.statusCode = 200, !.ended = TRUE]
                   /\ pc' = "returned"
              ELSE IF r.method # "POST"
              THEN res' = Json(405, "Method not allowed") /\ pc' = "returned"
              ELSE IF r.body = "undefined"
              THEN Catch([isError |-> TRUE, message |-> <<"Cannot", "destructure">>])
              ELSE IF r.body # "messages"
              THEN res' = Json(400, "Invalid request format") /\ pc' = "returned"
              ELSE res' = res /\ pc' = "creating"
    /\ UNCHANGED <<parserVars, appVars, messageVars, mapVars, historyVars, chunks>>

\* anthropic.messages.create resolves with the stream (lines 197-205)
StreamCreated ==
    /\ pc = "creating"
    /\ pc' = "streaming"
    /\ UNCHANGED <<parserVars, appVars, messageVars, mapVars, historyVars, req, res, chunks>>

\* the chunks the model stream can give
StreamEvents ==
    {[type |-> "content_block_delta", text |-> "Hi"],
     [type |-> "content_block_delta", text |-> " there"],
     [type |-> "content_block_delta", text |-> ""],
     [type |-> "message_start", text |-> ""]}

\* one turn of the for-await loop (lines 207-211); the event written is
\* named by the text it carries
NextChunk ==
    /\ pc = "streaming"
    /\ chunks < MaxChunks
    /\ chunks' = chunks + 1
    /\ \E chunk \in StreamEvents :
           res' = IF chunk.type = "content_block_delta"
                  THEN Write(res, <<"text:" \o chunk.text>>) ELSE res
    /\ UNCHANGED <<parserVars, appVars, messageVars, mapVars, historyVars, req, pc>>

\* the stream completes (lines 213-214)
StreamDone ==
    /\ pc = "streaming"
    /\ res' = [Write(res, <<"[DONE]">>) EXCEPT !.ended = TRUE]
    /\ pc' = "returned"
    /\ UNCHANGED <<parserVars, appVars, messageVars, mapVars, historyVars, req, chunks>>

\* the creation of the stream, or the stream itself, throws
StreamThrows ==
    /\ pc \in {"creating", "streaming"}
    /\ \E e \in StreamThrowables : Catch(e)
    /\ UNCHANGED <<parserVars, appVars, messageVars, mapVars, historyVars, req, chunks>>

NextHandler == Handler \/ StreamCreated \/ NextChunk \/ StreamDone \/ StreamThrows

Init == ParserIdle /\ AppMounted

SpecHandler == Init /\ [][NextHandler]_vars

SpecMap == Init /\ [][NextMap]_vars

Next ==
    \/ \E q \in Queries : SendMessage(q)
    \/ \E k \in 1..MaxSends : StreamChunk(k)
    \/ \E k \in 1..MaxSends : StreamEnd(k)
    \/ \E k \in 1..MaxSends : StreamFail(k)
    \/ StreamingEffect
    \/ \E l \in lookups : LookupResolved(l)

Spec == Init /\ [][Next]_vars

\* One conversation turn during which the user also selects locations.
NextSelecting ==
    \/ \E q \in Queries : sends = 0 /\ SendMessage(q)
    \/ \E k \in 1..MaxSends : StreamChunk(k)
    \/ \E k \in 1..MaxSends : StreamEnd(k)
    \/ \E k \in 1..MaxSends : StreamFail(k)
    \/ StreamingEffect
    \/ \E l \in lookups : LookupResolved(l)
    \/ \E i \in 1..(MaxRecs + 1) : SelectLocation(i)

SpecSelecting == Init /\ [][NextSelecting]_vars

\* One conversation turn, with the ChatMessage that renders its reply.
NextMessage ==
    \/ \E q \in Queries \cup {MarkerAndBlock} : sends = 0 /\ SendMessage(q)
    \/ \E k \in 1..MaxSends : StreamChunk(k)
    \/ \E k \in 1..MaxSends : StreamEnd(k)
    \/ \E k \in 1..MaxSends : StreamFail(k)
    \/ StreamingEffect
    \/ \E l \in lookups : LookupResolved(l)
    \/ ChatMessageProps
    \/ ChatMessageEffect
    \/ \E first \in timers : ChatMessageTimer(first)

SpecMessage == Init /\ [][NextMessage]_vars

\* the splitter reports a weatherLocation for this content
WeatherIntent(content) == ProcessStreamingMessage(content).weatherLocation # ""

\* C19: an update in which the splitter reports a weatherLocation leaves the
\* displayed locations and the city context as they were, extracts nothing,
\* and sets only the weather location, in App and in ChatMessage alike.
C19_WeatherUpdateExtractsNothing ==
    [][/\ (effectDep' # effectDep /\ effectDep'.def /\ WeatherIntent(effectDep'.content))
          => /\ locations' = locations
             /\ cityContext' = cityContext
             /\ lookups' = lookups
             /\ currentWeatherLocation' =
                    ProcessStreamingMessage(effectDep'.content).weatherLocation
       /\ (cmDep' # cmDep /\ WeatherIntent(cmDep'.content))
          => /\ cmLocations' = cmLocations
             /\ cityContext' = cityContext
             /\ handed' = handed
             /\ timers' = timers
             /\ cmWeatherLocation' =
                    ProcessStreamingMessage(cmDep'.content).weatherLocation]_vars

\* both effects ran on a finished reply that holds a marker and a whole block
C19_Witness ==
    /\ effectDep.def
    /\ cmDep.ran /\ ~cmDep.isStreaming
    /\ cmDep.content = effectDep.content
    /\ WeatherIntent(effectDep.content)
    /\ JSONParse(SubSeq(effectDep.content, 3, Len(effectDep.content))).ok
    /\ currentWeatherLocation = "Oslo"
    /\ cmWeatherLocation = "Oslo"

(***************************************************************************)
(* What the specification asks of a record, stated apart from the code.    *)
(***************************************************************************)
InRange(r) ==
    /\ r.t = "obj"
    /\ LET c == Get(r, "coordinates") IN
       /\ c.t = "arr" /\ Len(c.a) = 2
       /\ c.a[1].t = "num" /\ c.a[1].n \in -90..90
       /\ c.a[2].t = "num" /\ c.a[2].n \in -180..180

WellFormedRecord(r) == InRange(r) /\ Get(r, "name").t = "str"

\* the text is a complete {"locations":[...]} block, bare or inside prose
BlockInput == input.wrap \in {"compact", "pretty"}

\* one of the two entry points that read a JSON block was called
JsonEntryCalled == called \in {"strict", "permissive"}

Result == IF called = "strict" THEN strictResult ELSE permissiveResult

\* the valid records of a payload, in order
ValidOnes(payload) == SelectSeq(payload, InRange)

FirstInvalid(payload) == MinOf({i \in 1..Len(payload) : ~InRange(payload[i])})

(***************************************************************************)
(* Claims about the two entry points (specification SpecParser).           *)
(***************************************************************************)

\* C1: for a well-formed block {"locations":[R1..Rn]}, n >= 1, every record
\* with a name and in-range coordinates, in any key order, each entry point
\* returns exactly n Locations, the i-th carrying Ri's name.
C1_EveryValidRecordReturned ==
    (/\ JsonEntryCalled /\ BlockInput /\ Len(input.payload) >= 1
     /\ \A i \in 1..Len(input.payload) : WellFormedRecord(input.payload[i]))
    => /\ Result.th = "none"
       /\ Len(Result.val) = Len(input.payload)
       /\ \A i \in 1..Len(input.payload) :
              Result.val[i].name.t = "str"
              /\ Result.val[i].name.s \in {Get(input.payload[i], "name").s,
                                           Trim(Get(input.payload[i], "name").s)}

\* C2: strict mode: a block that holds a record with invalid coordinates
\* makes parseJsonLocations throw an error naming the first such record,
\* and return nothing.
C2_StrictRejectsNamingFirstInvalid ==
    (/\ called = "strict" /\ BlockInput
     /\ \A i \in 1..Len(input.payload) : input.payload[i].t = "obj"
     /\ \E i \in 1..Len(input.payload) : ~InRange(input.payload[i]))
    => /\ strictResult.th = "InvalidCoordinates"
       /\ strictResult.name = Get(input.payload[FirstInvalid(input.payload)], "name")
       /\ strictResult.val = <<>>

\* C3: permissive mode: extractLocationsFromResponse returns exactly the
\* records whose coordinates are valid, in input order.
C3_PermissiveKeepsExactlyValid ==
    (called = "permissive" /\ BlockInput)
    => /\ Len(permissiveResult.val) = Len(ValidOnes(input.payload))
       /\ \A i \in 1..Len(permissiveResult.val) :
              /\ permissiveResult.val[i].name = Get(ValidOnes(input.payload)[i], "name")
              /\ permissiveResult.val[i].position.lat = Get(ValidOnes(input.payload)[i], "coordinates").a[1]
              /\ permissiveResult.val[i].position.lng = Get(ValidOnes(input.payload)[i], "coordinates").a[2]

\* the inputs from which no location can be parsed: no block at all, a
\* block cut off before its end, a locations member that is no array, an
\* empty array
NothingToParse ==
    \/ input.wrap \in {"prose", "empty", "cut", "bareRecord", "singleOnly", "duplicateKey"}
    \/ Len(input.payload) = 0

\* C7: extractLocationsFromResponse never throws, whatever the text, and
\* returns the empty list when no location can be parsed.
C7_ExtractIsTotal ==
    called = "permissive"
    => /\ permissiveResult.th = "none"
       /\ NothingToParse => permissiveResult.val = <<>>

\* an exception was raised inside the try block and the call returned []
C7_Witness ==
    /\ called = "permissive"
    /\ permissiveResult = Returned(<<>>)
    /\ ExtractTry(text, Clock(FALSE), [i \in 1..(MaxRecs + 1) |-> 0]).th = "TypeError"

\* pattern k's first match parses and holds at least one record
Yields(m) == PatternPayload(m, text).hit /\ Len(PatternPayload(m, text).locs) >= 1

\* C8 as stated: parseJsonLocations throws 'no locations found' exactly
\* when neither pattern yields a parseable payload with at least one
\* record, and never returns an empty list.
C8_NoLocationsIffNeitherPatternYields ==
    called = "strict"
    => /\ strictResult.th = "NoLocations"
          <=> (~Yields(MatchLocationsBlock(text)) /\ ~Yields(MatchSingleLocation(text)))
       /\ ~(strictResult.th = "none" /\ strictResult.val = <<>>)

\* C8 amended: parseJsonLocations throws 'no locations found' exactly when
\* no pattern's match parses, or the first pattern whose match parses holds
\* no record (the second pattern is then not tried); it never returns an
\* empty list.
C8_NoLocationsIffFirstParsedIsEmpty ==
    called = "strict"
    => LET p1 == PatternPayload(MatchLocationsBlock(text), text)
           p2 == PatternPayload(MatchSingleLocation(text), text)
       IN  /\ strictResult.th = "NoLocations"
              <=> \/ ~p1.hit /\ ~p2.hit
                  \/ p1.hit /\ Len(p1.locs) = 0
                  \/ ~p1.hit /\ p2.hit /\ Len(p2.locs) = 0
           /\ ~(strictResult.th = "none" /\ strictResult.val = <<>>)

\* an empty locations block followed by a bare record: the second pattern
\* would yield a record, and the call threw 'no locations found'
C8_Witness ==
    /\ called = "strict"
    /\ strictResult.th = "NoLocations"
    /\ Yields(MatchSingleLocation(text))

OmitsRatingAndReviews(r) ==
    r.t = "obj" /\ Get(r, "rating").t = "undef" /\ Get(r, "reviews").t = "undef"

\* C9: a Location built from a record that omits rating and reviews has
\* rating 4.5 and a reviews count in [10000, 50000), in both entry points.
C9_DefaultsWhenAbsent ==
    (/\ JsonEntryCalled /\ BlockInput /\ Result.th = "none"
     /\ Len(Result.val) = Len(input.payload))
    => \A i \in 1..Len(input.payload) :
           OmitsRatingAndReviews(input.payload[i])
           => /\ Result.val[i].rating = VNum(45)
              /\ Result.val[i].reviews.t = "num"
              /\ Result.val[i].reviews.n >= 10000
              /\ Result.val[i].reviews.n < 50000

Present(r, key) == r.t = "obj" /\ Get(r, key).t \notin {"undef", "null"}

ResultImage(loc) == IF called = "strict" THEN loc.image ELSE loc.imageUrl

\* C10: round trip: parseJsonLocations on the serialization of one Location
\* gives back its name, coordinates and description; and in both entry
\* points a rating, reviews or image present in the payload, the number 0
\* included, is carried through unchanged.
C10_RoundTripAndCarryThrough ==
    /\ (/\ called = "strict" /\ input.wrap = "compact"
        /\ input.payload \in {<<RecRome>>, <<RecZero>>})
       => /\ strictResult.th = "none"
          /\ Len(strictResult.val) = 1
          /\ strictResult.val[1].name = Get(input.payload[1], "name")
          /\ strictResult.val[1].coordinates = Get(input.payload[1], "coordinates")
          /\ strictResult.val[1].description
                 = Or(Get(input.payload[1], "description"), VStr(""))
    /\ (/\ JsonEntryCalled /\ BlockInput /\ Result.th = "none"
        /\ Len(Result.val) = Len(input.payload))
       => \A i \in 1..Len(input.payload) :
              /\ Present(input.payload[i], "rating")
                 => Result.val[i].rating = Get(input.payload[i], "rating")
              /\ Present(input.payload[i], "reviews")
                 => Result.val[i].reviews = Get(input.payload[i], "reviews")
              /\ Present(input.payload[i], "image")
                 => ResultImage(Result.val[i]) = Get(input.payload[i], "image")

\* the i-th record of the payload went through the normalizer and came back
Normalized ==
    /\ JsonEntryCalled /\ BlockInput
    /\ Result.th = "none"
    /\ Len(Result.val) = Len(input.payload)

\* C11: for every record with valid in-range coordinates [lat, lng], the
\* Location the normalizer produces carries exactly that latitude and that
\* longitude, in that order.
C11_PositionIsInputCoordinates ==
    Normalized
    => \A i \in 1..Len(input.payload) :
           InRange(input.payload[i])
           => IF called = "strict"
              THEN Result.val[i].coordinates = Get(input.payload[i], "coordinates")
              ELSE /\ Result.val[i].position.lat = Get(input.payload[i], "coordinates").a[1]
                   /\ Result.val[i].position.lng = Get(input.payload[i], "coordinates").a[2]

\* two in-range records, latitude and longitude different, came back
C11_Witness ==
    /\ Normalized /\ called = "permissive"
    /\ Len(input.payload) = 2
    /\ \A i \in 1..2 : /\ InRange(input.payload[i])
                       /\ Result.val[i].position.lat # Result.val[i].position.lng

\* the name the normalizer gives the Location built from record r
NameFrom(r) ==
    IF called = "strict" THEN VStr(Trim(Get(r, "name").s)) ELSE Get(r, "name")

\* C13: the returned list preserves input order: the i-th Location is the
\* one built from the i-th record of the payload's locations array.
C13_OrderPreserved ==
    Normalized
    => \A i \in 1..Len(input.payload) :
           /\ Result.val[i].name = NameFrom(input.payload[i])
           /\ Result.val[i].id.index = i - 1

\* two records of different names came back from the strict entry point
C13_Witness ==
    /\ Normalized /\ called = "strict"
    /\ Len(input.payload) = 2
    /\ Get(input.payload[1], "name") # Get(input.payload[2], "name")

\* C12: within the list one call returns, all id values are pairwise
\* distinct, also when every element is created in the same millisecond.
C12_IdsDistinctWithinCall ==
    \A r \in {strictResult, permissiveResult, textResult} :
        \A i, j \in 1..Len(r.val) : i # j => r.val[i].id # r.val[j].id

\* two Locations returned by one call, built in the same millisecond
C12_Witness ==
    /\ called = "strict" /\ strictResult.th = "none"
    /\ Len(strictResult.val) = 2
    /\ strictResult.val[1].id.now = strictResult.val[2].id.now

\* C14: every Location parseTextLocations returns has a name of at least
\* 2 characters after trimming.
C14_TextNamesHaveTwoCharacters ==
    called = "text"
    => \A i \in 1..Len(textResult.val) : CharCount(textResult.val[i].name) >= 2

\* the candidates of the text that pass the length test and whose lookups
\* do not throw
Processable(t) ==
    SelectSeq(ListItems(t, 1),
              LAMBDA it : CharCount(it.name) >= 2 /\ TrimTokens(it.name) \notin lookupFails)

\* C15: parseTextLocations never throws, and a candidate whose processing
\* fails is the only one skipped: every other candidate is returned.
C15_FailedCandidateOnlyIsSkipped ==
    called = "text"
    => /\ textResult.th = "none"
       /\ Len(textResult.val) = Len(Processable(text))
       /\ \A i \in 1..Len(textResult.val) :
              textResult.val[i].name = TrimTokens(Processable(text)[i].name)

(***************************************************************************)
(* Claims about the App (specification Spec).                              *)
(***************************************************************************)
FiniteInRange(v, lo, hi) == v.t = "num" /\ v.n >= lo /\ v.n <= hi

\* C4: in every reachable state each Location of the displayed locations
\* list has a latitude in [-90, 90] and a longitude in [-180, 180].
C4_DisplayedLocationsInRange ==
    \A i \in 1..Len(locations) :
        /\ FiniteInRange(locations[i].position.lat, -90, 90)
        /\ FiniteInRange(locations[i].position.lng, -180, 180)

\* C5: once a newer message has started streaming, no chunk of an older
\* stream changes the content of the current streaming message, and no
\* batch extracted from the older stream's text is displayed.
C5_AbandonedStreamIsDiscarded ==
    /\ (currentStreamingMessage.id # 0 /\ currentStreamingMessage.content # <<>>)
       => BotId(contentFrom) = currentStreamingMessage.id
    /\ shown.seq > 0 => BotId(shown.from) = shown.for

\* C16: what the user sees after a failure, the bot message content and
\* the error banner state, does not contain the text of the underlying
\* error.
C16_ErrorTextIsNotShown ==
    \A e \in StreamErrors :
        /\ error # e
        /\ \A i \in 1..Len(messages) :
               \A j \in 1..Len(messages[i].content) : messages[i].content[j] # X(e)

\* C17: once the reverse-geocoding lookup started for an extracted batch
\* or for a selection has answered, whatever its answer, the city-context
\* register has been written with that position's city.
C17_CityContextWrittenAfterLookup ==
    [][\A l \in lookups : l \notin lookups' => cityContext' = CityAt(l.lat, l.lng)]_vars

\* the names and positions of a list of Locations
Places(list) == [i \in 1..Len(list) |-> [name |-> list[i].name, position |-> list[i].position]]

\* what the streaming effect extracts from a content
BatchOf(content) ==
    IF ProcessStreamingMessage(content).weatherLocation # ""
       \/ ~ProcessStreamingMessage(content).jsonContent.has
    THEN <<>>
    ELSE ExtractLocationsFromResponse(ProcessStreamingMessage(content).jsonContent.text,
                                      Clock(FALSE), [i \in 1..(MaxRecs + 1) |-> 0]).val

\* the effect has run on the content of message m (dep is what it last
\* ran with), and that content holds a batch
EffectRanOnBatchOf(m, dep) ==
    /\ Dep(m) = dep
    /\ m.id # 0
    /\ Len(BatchOf(m.content)) > 0

EffectRanOnBatch == EffectRanOnBatchOf(currentStreamingMessage, effectDep)

\* C6: the displayed list is the batch of the content delivered last that
\* held one: every change of the list installs the batch of the latest
\* delivery, never one older than the delivery of the batch it replaces,
\* and once the effect has run on a content holding a batch, the list is
\* that batch.
C6_DisplayedBatchIsNeverStale ==
    [][/\ locations' # locations
          => /\ shown'.seq = delivered'
             /\ shown'.seq >= shown.seq
             /\ Places(locations') = Places(BatchOf(currentStreamingMessage'.content))
       /\ EffectRanOnBatchOf(currentStreamingMessage', effectDep')
          => Places(locations') = Places(BatchOf(currentStreamingMessage'.content))]_vars

\* the second call's stream has replaced the batch displayed by the first
C6_Witness ==
    /\ EffectRanOnBatch
    /\ shown.from = 2
    /\ shown.seq > 1
    /\ streams[1].fullResponse # <<>>
    /\ Len(BatchOf(streams[1].fullResponse)) > 0

\* the batch the effect extracts from the current content
CurrentBatch == BatchOf(currentStreamingMessage.content)

\* C18: replace semantics: when the effect extracts a non-empty batch, the
\* displayed list becomes exactly that batch; nothing of the list displayed
\* before, the seed city's location included, remains in it.
C18_BatchReplacesDisplayedList ==
    [][(effectDep' # effectDep /\ Len(CurrentBatch) > 0)
       => /\ Len(locations') = Len(CurrentBatch)
          /\ Places(locations') = Places(CurrentBatch)
          /\ \A i \in 1..Len(locations') : locations'[i].id.fmt # "city"]_vars

\* a batch is displayed and the seed city's location is gone
C18_Witness ==
    /\ shown.seq > 0
    /\ Len(locations) = 1
    /\ locations[1].name = VStr("Rome")

\* C20: a handleSendMessage call whose reply stream terminates, normally
\* or by throwing, ends with isLoading = false, isStreaming = false and
\* currentStreamingMessage = null; with every stream ended, the App is not
\* in the loading or streaming state.
C20_TerminatedStreamEndsLoading ==
    [][/\ \A k \in 1..MaxSends :
              (streams[k].st = "open" /\ streams'[k].st = "closed")
              => /\ isLoading' = FALSE /\ isStreaming' = FALSE
                 /\ currentStreamingMessage' = NoMessage
       /\ (\A k \in 1..MaxSends : streams'[k].st # "open")
              => /\ isLoading' = FALSE /\ isStreaming' = FALSE
                 /\ currentStreamingMessage' = NoMessage]_vars

\* one stream ended normally, another by throwing, and the App is idle
C20_Witness ==
    /\ \A k \in 1..MaxSends : streams[k].st = "closed"
    /\ \E k \in 1..MaxSends : streams[k].reply # ""
                              /\ streams[k].next > Len(Chunks(streams[k].reply))
    /\ error # NoError
    /\ ~isLoading /\ ~isStreaming /\ currentStreamingMessage = NoMessage

\* the stream of call k has chunks left to deliver
Delivering(k) == streams[k].st = "open" /\ streams[k].next <= Len(Chunks(streams[k].reply))

\* C21: while the reply stream of some handleSendMessage call is still
\* delivering chunks, isStreaming is true and currentStreamingMessage is
\* the bot message of that call, whatever other sends started or finished
\* in the meantime.
C21_LiveStreamKeepsStreamingState ==
    \A k \in 1..MaxSends :
        Delivering(k) => /\ isStreaming
                         /\ currentStreamingMessage.id = BotId(k)

\* C22: when a lookup was started for location A and then one for location
\* B, and every lookup has answered, B's with a city, the city-context
\* register holds B's city, whichever lookup answered first.
C22_LaterLookupWins ==
    (latest.nth >= 2 /\ lookups = {} /\ latest.ok)
        => cityContext = CityAt(latest.lat, latest.lng)

(***************************************************************************)
(* Claims about ChatMessage (specification SpecMessage).                   *)
(***************************************************************************)
\* C23: ChatMessage hands a batch to onLocationsUpdate only while
\* isStreaming is false, and at most once for a given message content,
\* however often its effect runs again for that content; it writes the
\* city context only when it hands a batch.
C23_BatchHandedOncePerContent ==
    [][/\ \A i \in 1..Len(handed') :
              /\ ~handed'[i].isStreaming
              /\ \A j \in 1..Len(handed') : handed'[j].content = handed'[i].content => j = i
       /\ (cmDep' # cmDep /\ cityContext' # cityContext)
              => (Len(handed') = Len(handed) + 1 /\ ~cmDep'.isStreaming)]_vars

\* a batch was handed, and the effect has run again for the same content
C23_Witness ==
    /\ Len(handed) = 1
    /\ processedRef
    /\ cmDep.ran /\ cmDep.isStreaming
    /\ cmDep.content = handed[1].content
    /\ lastProcessedContentRef = handed[1].content
    /\ flips = MaxFlips

(***************************************************************************)
(* Claims about MapUpdater (specification SpecMap).                        *)
(***************************************************************************)
\* a position the map may be moved to: finite numbers in both ranges
InRangePosition(p) == FiniteInRange(p.lat, -90, 90) /\ FiniteInRange(p.lng, -180, 180)

\* what a flyTo / flyToBounds call is given lies in both ranges (bounds in
\* tenths of a degree)
FlightInRange(f) ==
    /\ f.kind = "flyTo" => InRangePosition(f)
    /\ f.kind = "flyToBounds"
       => /\ f.bounds.south >= -900 /\ f.bounds.north <= 900
          /\ f.bounds.west >= -1800 /\ f.bounds.east <= 1800

\* C24: every flyTo / flyToBounds call is given only latitudes in [-90, 90]
\* and longitudes in [-180, 180]; the selection effect moves nothing for a
\* selected location with invalid coordinates; the locations effect moves
\* the map only with no location selected and some location valid.
C24_MapNeverMovedToInvalidCoordinates ==
    [][/\ FlightInRange(lastFlight')
       /\ (selectionRun' # selectionRun /\ mapSelected.some
           /\ ~InRangePosition(mapSelected.position))
          => lastFlight' = lastFlight
       /\ (locationsRun' # locationsRun /\ lastFlight' # lastFlight)
          => /\ ~mapSelected.some
             /\ \E i \in 1..Len(mapLocations) : InRangePosition(mapLocations[i].position)]_vars

(***************************************************************************)
(* Claims about the chat API handler (specification SpecHandler).          *)
(***************************************************************************)
\* the positions of the [DONE] event in what was written
DoneAt(written) == {i \in 1..Len(written) : written[i] = "[DONE]"}

\* C25: once the handler has returned, a response on which an event was
\* written ends with exactly one [DONE] event, its last, and is ended,
\* whether the model stream completed or threw part-way; and a JSON
\* response with a status is sent only while no header has been sent.
C25_EventStreamEndsWithOneDone ==
    [][/\ (pc' = "returned" /\ res'.written # <<>>)
          => /\ DoneAt(res'.written) = {Len(res'.written)}
             /\ res'.ended
       /\ pc' # "returned" => DoneAt(res'.written) = {} /\ ~res'.ended
       /\ res'.json # res.json => (~res.headersSent /\ res'.written = <<>>)]_vars

\* the model stream threw after an event had been written
C25_Witness ==
    /\ pc = "returned"
    /\ Len(res.written) >= 3
    /\ res.written[Len(res.written) - 1] = "error"
    /\ res.written[Len(res.written)] = "[DONE]"
    /\ res.ended
    /\ res.json = ""

====
